---- MODULE Spec2Model ----
(***************************************************************************)
(* Kanka MCP server (src/index.js, HTTP mode): the session registry shared *)
(* by the Streamable HTTP and the SSE transports, and the OAuth relay with *)
(* its two in-memory tables.                                               *)
(*                                                                         *)
(* Node runs one handler at a time; a handler gives up control only at an  *)
(* await.  Every action below is the code between two awaits of one        *)
(* handler (or one timer / stream callback), so the interleavings of the   *)
(* model are the interleavings of the event loop.                          *)
(*                                                                         *)
(* randomUUID() is a random draw.  Under SpecSess a draw never repeats an  *)
(* earlier one (the uniqueness UUIDs are used for); under SpecCollide a    *)
(* draw may return any identifier, which is the case the registry's        *)
(* compare-by-identity guards are written for.                             *)
(***************************************************************************)
EXTENDS Integers, FiniteSets, Sequences, TLC

\* ---------------------------------------------------------------- bounds
MaxIds == 2
MaxAdapters == 2
MaxPending == 1

SessionIds == 1..MaxIds
AdapterIds == 1..MaxAdapters

\* `undefined` header / query value, and Map.get() of an absent key
NoSession == 0
NoAdapter == 0

\* requests to /mcp: a POST carries one initialize request ("init"), an
\* array holding an initialize request among others ("batch") or any other
\* JSON-RPC message ("call"); GET and DELETE carry no body.  Their Accept
\* and Content-Type headers are the ones the SDK transport accepts.
McpRequests ==
  {[method |-> "POST", body |-> b] : b \in {"init", "batch", "call"}}
    \cup {[method |-> m, body |-> "none"] : m \in {"GET", "DELETE"}}

VARIABLES
  activeSessions,  \* Map sessionId -> transport instance (NoAdapter: absent)
  adapters,        \* the transport objects created so far, by instance
  nAdapters,       \* number of transport objects created so far
  timers,          \* pending setTimeout callbacks of the SSE close handler
  pending,         \* handlers suspended at `await serverInstance.connect`
  usedIds,         \* identifiers randomUUID() has returned so far
  last             \* the last response written / callback run

sessVars == <<activeSessions, adapters, nAdapters, timers, pending, usedIds, last>>

\* ------------------------------------------------------- transport objects
NoTransport ==
  [kind |-> "none", sessionId |-> NoSession, connected |-> FALSE, resOpen |-> FALSE]

\* new StreamableHTTPServerTransport({sessionIdGenerator, ...}): no session
\* id until it handles an initialize request
NewStreamableHTTPServerTransport ==
  [NoTransport EXCEPT !.kind = "HTTP"]

\* new SSEServerTransport("/message", res): the constructor draws the id
NewSSEServerTransport(id) ==
  [NoTransport EXCEPT !.kind = "SSE", !.sessionId = id, !.resOpen = TRUE]

NoEvent ==
  [ep |-> "none", method |-> "none", sid |-> NoSession, body |-> "none",
   status |-> 0, code |-> 0, adapter |-> NoAdapter, created |-> NoAdapter,
   stored |-> NoAdapter]

\* ------------------------------------------------------------ pure helpers
isInitializePayload(body) == body \in {"init", "batch"}

\* variant of IsSSEServerTransport without the class test
IsAnyTransport(tr) == tr.kind # "none"

\* `transport instanceof SSEServerTransport`
IsSSEServerTransport(tr) == tr.kind = "SSE"

\* `existingTransport instanceof StreamableHTTPServerTransport`
IsStreamableHTTPServerTransport(tr) == tr.kind = "HTTP"

\* activeSessions.get(sessionId), with `sessionId ? ... : undefined`
Lookup(reg, sid) == IF sid = NoSession THEN NoAdapter ELSE reg[sid]

\* variant of Register that also stores the transport under every free id
RegisterEverywhere(reg, sid, t) ==
  [s \in SessionIds |-> IF s = sid \/ reg[s] = NoAdapter THEN t ELSE reg[s]]

\* activeSessions.set(sessionId, transport): Map.set replaces the value of a
\* key that is present
Register(reg, sid, t) == [reg EXCEPT ![sid] = t]

\* onsessionclosed: delete only when the stored transport is this one
OnSessionClosed(reg, sid, t) ==
  IF sid # NoSession /\ reg[sid] = t THEN [reg EXCEPT ![sid] = NoAdapter] ELSE reg

\* transport.onclose of a Streamable HTTP transport
OnClose(reg, sid, t) ==
  IF sid # NoSession /\ reg[sid] = t THEN [reg EXCEPT ![sid] = NoAdapter] ELSE reg

\* variant of GraceEvict that deletes without looking at the stored value
GraceEvictAlways(reg, sid, t) == [reg EXCEPT ![sid] = NoAdapter]

\* variant of GraceEvict that deletes whatever transport is stored
GraceEvictIfPresent(reg, sid, t) ==
  IF reg[sid] # NoAdapter THEN [reg EXCEPT ![sid] = NoAdapter] ELSE reg

\* the setTimeout callback of the SSE close handler
GraceEvict(reg, sid, t) ==
  IF reg[sid] = t THEN [reg EXCEPT ![sid] = NoAdapter] ELSE reg

\* the SDK transport's _initialized flag is set together with its sessionId
Initialized(tr) == tr.sessionId # NoSession

\* What transport.handleRequest(req, res, req.body) of the SDK answers for a
\* transport in state tr: the initialize rules or validateSession, then the
\* method's own work.
Answer(status, code, effect) == [status |-> status, code |-> code, effect |-> effect]

ValidateSession(tr, sid) ==
  IF ~Initialized(tr) THEN Answer(400, -32000, "none")
  ELSE IF sid = NoSession THEN Answer(400, -32000, "none")
  ELSE IF sid # tr.sessionId THEN Answer(404, -32001, "none")
  ELSE Answer(200, 0, "ok")

\* variant of TransportAnswer whose DELETE answers without closing
TransportAnswerDeleteKeeps(tr, m, sid, body) ==
  IF m = "POST" /\ isInitializePayload(body) THEN
    IF Initialized(tr) THEN Answer(400, -32600, "none")
    ELSE IF body = "batch" THEN Answer(400, -32600, "none")
    ELSE Answer(200, 0, "init")
  ELSE LET v == ValidateSession(tr, sid) IN
    IF v.effect # "ok" THEN v
    ELSE Answer(200, 0, "handled")

TransportAnswer(tr, m, sid, body) ==
  IF m = "POST" /\ isInitializePayload(body) THEN
    IF Initialized(tr) THEN Answer(400, -32600, "none")
    ELSE IF body = "batch" THEN Answer(400, -32600, "none")
    ELSE Answer(200, 0, "init")
  ELSE LET v == ValidateSession(tr, sid) IN
    IF v.effect # "ok" THEN v
    ELSE IF m = "DELETE" THEN Answer(200, 0, "close")
    ELSE Answer(200, 0, "handled")

\* ------------------------------------------------------------------ Init
SessInit ==
  /\ activeSessions = [s \in SessionIds |-> NoAdapter]
  /\ adapters = [a \in AdapterIds |-> NoTransport]
  /\ nAdapters = 0
  /\ timers = {}
  /\ pending = {}
  /\ usedIds = {}
  /\ last = NoEvent

\* --------------------------------------------------------------- actions
\* await transport.handleRequest(req, res, req.body): the transport answers
\* and, on initialize, runs onsessioninitialized; on DELETE, onsessionclosed
\* and then close() -> onclose.
HandleRequest(ad, t, m, sid, body, id, created, stored) ==
  LET tr == ad[t]
      out == TransportAnswer(tr, m, sid, body)
  IN /\ (out.effect = "init") <=> (id # NoSession)
     /\ adapters' =
          IF out.effect = "init"
            THEN [ad EXCEPT ![t].sessionId = id]
          ELSE ad
     /\ activeSessions' =
          IF out.effect = "init" THEN Register(activeSessions, id, t)
          ELSE IF out.effect = "close"
            THEN OnClose(OnSessionClosed(activeSessions, tr.sessionId, t),
                         tr.sessionId, t)
          ELSE activeSessions
     /\ usedIds' = IF out.effect = "init" THEN usedIds \cup {id} ELSE usedIds
     /\ last' = [ep |-> "mcp", method |-> m, sid |-> sid, body |-> body,
                 status |-> out.status, code |-> out.code, adapter |-> t,
                 created |-> created, stored |-> stored]

\* res.status(400).json({jsonrpc, error: {code: -32000, ...}, id: null})
RejectMcp(m, sid, body, stored) ==
  /\ last' = [ep |-> "mcp", method |-> m, sid |-> sid, body |-> body,
              status |-> 400, code |-> -32000, adapter |-> NoAdapter,
              created |-> NoAdapter, stored |-> stored]
  /\ UNCHANGED <<activeSessions, adapters, nAdapters, timers, pending, usedIds>>

\* variant of CreatesTransport without `!sessionId`
CreatesTransportAnySessionId(m, sid, body) ==
  \/ m = "GET"
  \/ m = "POST" /\ isInitializePayload(body)

\* variant of CreatesTransport without `isInitializePayload(req.body)`
CreatesTransportAnyBody(m, sid, body) ==
  \/ m = "GET"
  \/ sid = NoSession /\ m = "POST"

\* the branch `req.method === "GET"` and the branch
\* `!sessionId && POST && isInitializePayload`: a new transport, then the
\* handler waits for serverInstance.connect(transport)
CreatesTransport(m, sid, body) ==
  \/ m = "GET"
  \/ sid = NoSession /\ m = "POST" /\ isInitializePayload(body)

\* variant of Route that tries the creating branches before the lookup
RouteGetFirst(m, sid, body, storedTr) ==
  IF CreatesTransport(m, sid, body) THEN "create"
  ELSE IF storedTr.kind # "none" THEN
    IF IsStreamableHTTPServerTransport(storedTr) THEN "reuse" ELSE "mismatch"
  ELSE "reject"

\* the if / else-if chain of handleMcpRequest: which branch a request takes,
\* given the transport record stored under its session id (NoTransport when
\* there is none)
Route(m, sid, body, storedTr) ==
  IF storedTr.kind # "none" THEN
    IF IsStreamableHTTPServerTransport(storedTr) THEN "reuse" ELSE "mismatch"
  ELSE IF CreatesTransport(m, sid, body) THEN "create"
  ELSE "reject"

\* handleMcpRequest up to its first await
McpRequest(m, sid, body) ==
  LET stored == Lookup(activeSessions, sid)
      storedTr == IF stored = NoAdapter THEN NoTransport ELSE adapters[stored]
      route == Route(m, sid, body, storedTr)
  IN
  IF route = "reuse" THEN
    /\ HandleRequest(adapters, stored, m, sid, body, NoSession, NoAdapter, stored)
    /\ UNCHANGED <<nAdapters, timers, pending>>
  ELSE IF route = "create" THEN
    /\ nAdapters < MaxAdapters
    /\ Cardinality(pending) < MaxPending
    /\ nAdapters' = nAdapters + 1
    /\ adapters' = [adapters EXCEPT ![nAdapters + 1] = NewStreamableHTTPServerTransport]
    /\ pending' = pending \cup
         {[route |-> "mcp", transport |-> nAdapters + 1, method |-> m,
           sid |-> sid, body |-> body, stored |-> stored]}
    /\ UNCHANGED <<activeSessions, timers, usedIds, last>>
  ELSE RejectMcp(m, sid, body, stored)

\* handleMcpRequest after `await serverInstance.connect(transport)`
McpConnected(p, id) ==
  /\ p \in pending
  /\ p.route = "mcp"
  /\ HandleRequest([adapters EXCEPT ![p.transport].connected = TRUE],
                   p.transport, p.method, p.sid, p.body, id,
                   p.transport, p.stored)
  /\ pending' = pending \ {p}
  /\ UNCHANGED <<nAdapters, timers>>

\* GET /sse up to `await serverInstance.connect(transport)`: the transport
\* is registered before it is connected
SseRequest(id) ==
  /\ nAdapters < MaxAdapters
  /\ Cardinality(pending) < MaxPending
  /\ nAdapters' = nAdapters + 1
  /\ adapters' = [adapters EXCEPT ![nAdapters + 1] = NewSSEServerTransport(id)]
  /\ activeSessions' = Register(activeSessions, id, nAdapters + 1)
  /\ usedIds' = usedIds \cup {id}
  /\ pending' = pending \cup
       {[route |-> "sse", transport |-> nAdapters + 1, method |-> "GET",
         sid |-> NoSession, body |-> "none", stored |-> NoAdapter]}
  /\ UNCHANGED <<timers, last>>

\* GET /sse after the await: transport.onclose and res.on("close") are set
SseConnected(p) ==
  /\ p \in pending
  /\ p.route = "sse"
  /\ adapters' = [adapters EXCEPT ![p.transport].connected = TRUE]
  /\ pending' = pending \ {p}
  /\ last' = [NoEvent EXCEPT !.ep = "sse", !.method = "GET", !.status = 200,
                             !.created = p.transport,
                             !.sid = adapters[p.transport].sessionId]
  /\ UNCHANGED <<activeSessions, nAdapters, timers, usedIds>>

\* the "close" event of the SSE response: the listener of index.js, when
\* it is attached, schedules the grace timer
SseStreamClose(t) ==
  /\ t \in 1..nAdapters
  /\ adapters[t].kind = "SSE"
  /\ adapters[t].resOpen
  /\ adapters' = [adapters EXCEPT ![t].resOpen = FALSE]
  /\ timers' = IF adapters[t].connected
                 THEN timers \cup {[sessionId |-> adapters[t].sessionId, transport |-> t]}
                 ELSE timers
  /\ UNCHANGED <<activeSessions, nAdapters, pending, usedIds, last>>

\* the setTimeout callback, 60000 ms after the close event
GraceTimerFires(tm) ==
  /\ tm \in timers
  /\ timers' = timers \ {tm}
  /\ activeSessions' = GraceEvict(activeSessions, tm.sessionId, tm.transport)
  /\ last' = [NoEvent EXCEPT !.ep = "timer", !.sid = tm.sessionId,
                             !.adapter = tm.transport,
                             !.stored = activeSessions[tm.sessionId]]
  /\ UNCHANGED <<adapters, nAdapters, pending, usedIds>>

\* transport.handlePostMessage of the SDK: 202 while the transport holds its
\* response stream, 500 "SSE connection not established" otherwise.  The
\* transport takes the stream in start(), which connect() runs before the
\* handler first gives up control, and drops it at the stream's close event.
PostMessageStatus(tr) == IF tr.resOpen THEN 202 ELSE 500

\* handlePostMessage throws after it has written that 500; the handlers of
\* /message and /messages await it outside any try block
PostMessageThrows(tr) == ~tr.resOpen

\* POST /message and its alias POST /messages
MessagePost(ep, sid) ==
  LET transport == Lookup(activeSessions, sid) IN
  /\ last' =
       IF transport # NoAdapter /\ IsSSEServerTransport(adapters[transport]) THEN
         [NoEvent EXCEPT !.ep = ep, !.method = "POST", !.sid = sid,
                         !.status = PostMessageStatus(adapters[transport]),
                         !.adapter = transport, !.stored = transport]
       ELSE IF sid # NoSession /\ transport # NoAdapter THEN
         [NoEvent EXCEPT !.ep = ep, !.method = "POST", !.sid = sid,
                         !.status = 400, !.code = -32000, !.stored = transport]
       ELSE
         [NoEvent EXCEPT !.ep = ep, !.method = "POST", !.sid = sid,
                         !.status = 400]
  /\ UNCHANGED <<activeSessions, adapters, nAdapters, timers, pending, usedIds>>

\* ---------------------------------------------------- body parsing errors
\* The errors express.json() hands to next(err) before any route runs: the
\* SyntaxError of a body that is not JSON (status 400, with a `body`
\* property) and the error of a body over the size limit (status 413).
JsonParseFailed == [syntaxError |-> TRUE, status |-> 400, body |-> TRUE]
EntityTooLarge == [syntaxError |-> FALSE, status |-> 413, body |-> FALSE]
BodyErrors == {JsonParseFailed, EntityTooLarge}

\* the routes that read a body
BodyEndpoints == {"mcp", "message", "messages", "token"}

\* variant of IsJsonSyntaxError that looks for status 500
IsJsonSyntaxErrorStatus500(err) == err.syntaxError /\ err.status = 500 /\ err.body

\* `err instanceof SyntaxError && err.status === 400 && 'body' in err`
IsJsonSyntaxError(err) == err.syntaxError /\ err.status = 400 /\ err.body

\* The error handler registered after the body parsers: it answers a JSON
\* syntax error itself, and passes any other error on to the default handler
\* of Express, which answers err.status with an HTML page.  No route runs.
BodyRejected(ep, err) ==
  /\ last' = IF IsJsonSyntaxError(err)
               THEN [NoEvent EXCEPT !.ep = ep, !.method = "POST", !.body = "malformed",
                                    !.status = 400, !.code = -32700]
             ELSE [NoEvent EXCEPT !.ep = ep, !.method = "POST", !.body = "malformed",
                                  !.status = err.status]
  /\ UNCHANGED <<activeSessions, adapters, nAdapters, timers, pending, usedIds>>

\* =================================================================== OAuth
\* ---------------------------------------------------------------- bounds
MaxAuthRequests == 1
MaxUpstreamCalls == 2

\* randomUUID() values of the relay: request ids and minted codes
ReqId(n) == "req" \o ToString(n)
CodeId(n) == "code" \o ToString(n)
RequestIds == {ReqId(n) : n \in 1..MaxAuthRequests}
CodeIds == {CodeId(n) : n \in 1..MaxUpstreamCalls}

\* query / form parameters the handlers read; "" is an absent parameter
ParamNames ==
  {"response_type", "client_id", "redirect_uri", "state", "code_challenge",
   "code_challenge_method", "kanka_client_id", "kanka_client_secret",
   "kanka_redirect_uri", "scope", "code", "error", "error_description",
   "grant_type", "code_verifier", "refresh_token"}
NoParams == [f \in ParamNames |-> ""]
Req(query, body) == [query |-> query, body |-> body]

VARIABLES
  env,                \* KANKA_CLIENT_ID / _SECRET / _REDIRECT_URI / _API_TOKEN
  oauthAuthRequests,  \* Map requestId -> pending authorization request
  oauthAuthCodes,     \* Map code -> issued authorization code
  nRequests,          \* request ids drawn so far
  nCodes,             \* codes drawn so far
  nUpstream,          \* upstream token calls started so far
  inflight,           \* handlers suspended at `await axios.post(...)`
  oauthLast,          \* the last response of an OAuth endpoint
  redeemed            \* codes exchanged successfully at /oauth/token

oauthVars == <<env, oauthAuthRequests, oauthAuthCodes, nRequests, nCodes,
               nUpstream, inflight, oauthLast, redeemed>>

NoRequest ==
  [clientId |-> "", redirectUri |-> "", state |-> "", codeChallenge |-> "",
   codeChallengeMethod |-> "", kankaClientId |-> "", kankaClientSecret |-> "",
   kankaRedirectUri |-> ""]

NoCode ==
  [accessToken |-> "", refreshToken |-> "", expiresIn |-> "",
   codeChallenge |-> "", codeChallengeMethod |-> ""]

NoResponse ==
  [ep |-> "none", status |-> 0, error |-> "", errorDescription |-> "",
   location |-> "", code |-> "",
   state |-> "", accessToken |-> "", refreshToken |-> "", expiresIn |-> "",
   forState |-> "", forCode |-> "", matched |-> FALSE, late |-> FALSE]

Respond(ep, status, error) ==
  [NoResponse EXCEPT !.ep = ep, !.status = status, !.error = error]

\* ------------------------------------------------------------ pure helpers
\* a || b || c ...: the first truthy operand
FirstTruthy(seq) ==
  LET idx == {i \in 1..Len(seq) : seq[i] # ""} IN
  IF idx = {} THEN "" ELSE seq[CHOOSE i \in idx : \A j \in idx : i <= j]

\* base64Url(sha256(value)): injective on the values used, never the value
base64UrlSha256(value) == "S256:" \o value

\* variant of verifyPkce that lets an absent verifier pass
verifyPkceAbsentVerifierPasses(codeVerifier, codeChallenge, method) ==
  IF codeChallenge = "" THEN TRUE
  ELSE IF codeVerifier = "" THEN TRUE
  ELSE IF method = "" \/ method = "plain" THEN codeVerifier = codeChallenge
  ELSE IF method = "S256" THEN base64UrlSha256(codeVerifier) = codeChallenge
  ELSE FALSE

\* variant of verifyPkce that compares verbatim under every method but S256
verifyPkceAnyMethodPlain(codeVerifier, codeChallenge, method) ==
  IF codeChallenge = "" THEN TRUE
  ELSE IF codeVerifier = "" THEN FALSE
  ELSE IF method = "S256" THEN base64UrlSha256(codeVerifier) = codeChallenge
  ELSE codeVerifier = codeChallenge

\* variant of verifyPkce that hashes the verifier when no method is recorded
verifyPkceAbsentMethodS256(codeVerifier, codeChallenge, method) ==
  IF codeChallenge = "" THEN TRUE
  ELSE IF codeVerifier = "" THEN FALSE
  ELSE IF method = "plain" THEN codeVerifier = codeChallenge
  ELSE IF method = "" \/ method = "S256"
    THEN base64UrlSha256(codeVerifier) = codeChallenge
  ELSE FALSE

verifyPkce(codeVerifier, codeChallenge, method) ==
  IF codeChallenge = "" THEN TRUE
  ELSE IF codeVerifier = "" THEN FALSE
  ELSE IF method = "" \/ method = "plain" THEN codeVerifier = codeChallenge
  ELSE IF method = "S256" THEN base64UrlSha256(codeVerifier) = codeChallenge
  ELSE FALSE

NoFallback == [clientId |-> "", clientSecret |-> "", redirectUri |-> "", scope |-> ""]

\* `${getBaseUrl(req)}/oauth/callback`
DefaultCallbackUri == "https://gateway/oauth/callback"

\* variant of resolveKankaConfig that prefers the process environment
resolveKankaConfigEnvFirst(req, fallback) ==
  [clientId |-> FirstTruthy(<<env.clientId, req.query.kanka_client_id,
                              req.body.kanka_client_id, req.query.client_id,
                              req.body.client_id, fallback.clientId>>),
   clientSecret |-> FirstTruthy(<<env.clientSecret, req.query.kanka_client_secret,
                                  req.body.kanka_client_secret,
                                  fallback.clientSecret>>),
   redirectUri |-> FirstTruthy(<<env.redirectUri, req.query.kanka_redirect_uri,
                                 req.body.kanka_redirect_uri, fallback.redirectUri,
                                 DefaultCallbackUri>>),
   scope |-> FirstTruthy(<<req.query.scope, req.body.scope, fallback.scope>>)]

resolveKankaConfig(req, fallback) ==
  [clientId |-> FirstTruthy(<<req.query.kanka_client_id, req.body.kanka_client_id,
                              env.clientId, req.query.client_id,
                              req.body.client_id, fallback.clientId>>),
   clientSecret |-> FirstTruthy(<<req.query.kanka_client_secret,
                                  req.body.kanka_client_secret,
                                  env.clientSecret, fallback.clientSecret>>),
   redirectUri |-> FirstTruthy(<<req.query.kanka_redirect_uri,
                                 req.body.kanka_redirect_uri,
                                 env.redirectUri, fallback.redirectUri,
                                 DefaultCallbackUri>>),
   scope |-> FirstTruthy(<<req.query.scope, req.body.scope, fallback.scope>>)]

\* ------------------------------------------------------------ credentials
\* An Authorization header is its scheme and what follows the white space
\* after it; NoHeader is the absent header.  A `token` query parameter is the
\* sequence of its occurrences in the URL.
NoHeader == [scheme |-> "", credentials |-> ""]

\* the flag `i` of the pattern
LowerCase(scheme) == IF scheme \in {"Bearer", "bearer", "BEARER"} THEN "bearer"
                     ELSE IF scheme \in {"Basic", "basic"} THEN "basic"
                     ELSE scheme

\* String.prototype.trim on the credentials used here
Trim(text) == IF text \in {" hdrToken ", "hdrToken "} THEN "hdrToken"
              ELSE IF text = " " THEN ""
              ELSE text

\* headerValue.match(/^Bearer\s+(.+)$/i), then match[1].trim()
getBearerToken(authorization) ==
  IF authorization = NoHeader THEN ""
  ELSE IF LowerCase(authorization.scheme) = "bearer" /\ authorization.credentials # ""
    THEN Trim(authorization.credentials)
  ELSE ""

\* Array.isArray(value) ? value[0] : value
getQueryValue(value) == IF Len(value) = 0 THEN "" ELSE value[1]

\* variant of SessionToken that reads the query parameter first
SessionTokenQueryFirst(authorization, tokenParam) ==
  FirstTruthy(<<getQueryValue(tokenParam), getBearerToken(authorization), "">>)

\* `getBearerToken(req) || getQueryValue(req.query.token) || ""`: the token
\* handed to createKankaServer for a new session
SessionToken(authorization, tokenParam) ==
  FirstTruthy(<<getBearerToken(authorization), getQueryValue(tokenParam), "">>)

\* `token || KANKA_API_TOKEN` of the server instance of the session
FinalToken(token) == FirstTruthy(<<token, env.apiToken>>)

\* ----------------------------------------------------------------- inputs
\* the process environment: the variables of config.js set, or none of them
ConfiguredEnv ==
  [clientId |-> "envId", clientSecret |-> "envSecret", redirectUri |-> "envRedirect",
   apiToken |-> "envToken"]
UnconfiguredEnv ==
  [clientId |-> "", clientSecret |-> "", redirectUri |-> "", apiToken |-> ""]
EnvChoices == {ConfiguredEnv, UnconfiguredEnv}

WithOverride(params, ov) ==
  IF ov THEN [params EXCEPT !.kanka_client_id = "ovId",
                            !.kanka_client_secret = "ovSecret",
                            !.kanka_redirect_uri = "ovRedirect"]
  ELSE params

Verifiers == {"", "v1", "v2"}

AuthorizeBase ==
  [NoParams EXCEPT !.response_type = "code", !.client_id = "cli",
                   !.redirect_uri = "https://client/cb"]

\* a plain request, one with state, S256 PKCE and the per-request upstream
\* client; and the three malformed requests
AuthorizeQueries ==
  {AuthorizeBase,
   WithOverride([AuthorizeBase EXCEPT !.state = "st", !.code_challenge = "S256:v1",
                                      !.code_challenge_method = "S256"], TRUE),
   [AuthorizeBase EXCEPT !.response_type = "token"],
   [AuthorizeBase EXCEPT !.client_id = ""],
   [AuthorizeBase EXCEPT !.redirect_uri = ""]}

\* authorization requests with a challenge: S256, plain, no method named, and
\* a method the gateway does not know
PkceAuthorizeQueries ==
  {[AuthorizeBase EXCEPT !.code_challenge = m[1], !.code_challenge_method = m[2]] :
     m \in {<<"S256:v1", "S256">>, <<"v1", "plain">>, <<"v1", "">>,
            <<"v1", "S512">>}}

\* with a code, with nothing, and with an upstream error, which comes with a
\* description when it comes with a state
CallbackQueries ==
  {[NoParams EXCEPT !.state = st, !.code = ce[1], !.error = ce[2],
                    !.error_description =
                       IF ce[2] # "" /\ st # "" THEN "denied by the user" ELSE ""] :
     st \in RequestIds \cup {""},
     ce \in {<<"uc", "">>, <<"", "">>, <<"uc", "access_denied">>}}

TokenBodies ==
  {[NoParams EXCEPT !.grant_type = "authorization_code", !.code = c,
                    !.code_verifier = v] : c \in CodeIds \cup {""}, v \in Verifiers}
  \cup {[NoParams EXCEPT !.grant_type = "refresh_token", !.refresh_token = rt,
                         !.client_id = ci] :
          rt \in {"", "refresh1"}, ci \in {"", "cli"}}
  \cup {[NoParams EXCEPT !.grant_type = "password"]}

\* the requests of the authorization_code grant, and the callbacks that carry
\* an upstream code
CodeBodies == {b \in TokenBodies : b.grant_type = "authorization_code"}
ExchangeQueries == {q \in CallbackQueries : q.code # "" /\ q.error = ""}

\* tokenResponse.data of a successful upstream exchange: the identity
\* provider issues new tokens at every exchange, here numbered by the call
UpstreamData(call) ==
  [token_type |-> "Bearer", access_token |-> "access" \o ToString(call),
   refresh_token |-> "refresh" \o ToString(call), expires_in |-> "3600"]

\* request ids issued by /oauth/authorize that are no longer in the table
Consumed ==
  {r \in RequestIds :
     /\ oauthAuthRequests[r] = NoRequest
     /\ \E n \in 1..nRequests : r = ReqId(n)}

\* ------------------------------------------------------------------ Init
OAuthEmpty ==
  /\ oauthAuthRequests = [r \in RequestIds |-> NoRequest]
  /\ oauthAuthCodes = [c \in CodeIds |-> NoCode]
  /\ nRequests = 0
  /\ nCodes = 0
  /\ nUpstream = 0
  /\ inflight = {}
  /\ oauthLast = NoResponse
  /\ redeemed = {}

OAuthInit == env \in EnvChoices /\ OAuthEmpty

\* --------------------------------------------------------------- actions
\* variant of InvalidAuthorizeRequest that does not look at response_type
InvalidAuthorizeRequestAnyType(q) == q.client_id = "" \/ q.redirect_uri = ""

\* variant of InvalidAuthorizeRequest that also asks for the caller's state
InvalidAuthorizeRequestNeedsState(q) ==
  q.response_type # "code" \/ q.client_id = "" \/ q.redirect_uri = "" \/ q.state = ""

\* `responseType !== "code" || !clientId || !redirectUri`
InvalidAuthorizeRequest(q) ==
  q.response_type # "code" \/ q.client_id = "" \/ q.redirect_uri = ""

\* variant of PendingRequest that forgets the caller's state
PendingRequestNoState(q, kankaConfig) ==
  [clientId |-> q.client_id, redirectUri |-> q.redirect_uri,
   state |-> "", codeChallenge |-> q.code_challenge,
   codeChallengeMethod |-> q.code_challenge_method,
   kankaClientId |-> kankaConfig.clientId,
   kankaClientSecret |-> kankaConfig.clientSecret,
   kankaRedirectUri |-> kankaConfig.redirectUri]

\* the value stored under the new requestId
PendingRequest(q, kankaConfig) ==
  [clientId |-> q.client_id, redirectUri |-> q.redirect_uri,
   state |-> q.state, codeChallenge |-> q.code_challenge,
   codeChallengeMethod |-> q.code_challenge_method,
   kankaClientId |-> kankaConfig.clientId,
   kankaClientSecret |-> kankaConfig.clientSecret,
   kankaRedirectUri |-> kankaConfig.redirectUri]

\* GET /oauth/authorize
OAuthAuthorize(q) ==
  LET kankaConfig == resolveKankaConfig(Req(q, NoParams), NoFallback)
      requestId == ReqId(nRequests + 1)
  IN
  IF InvalidAuthorizeRequest(q) THEN
    /\ oauthLast' = Respond("authorize", 400, "Invalid OAuth authorization request")
    /\ UNCHANGED <<env, oauthAuthRequests, oauthAuthCodes, nRequests, nCodes,
                   nUpstream, inflight, redeemed>>
  ELSE IF kankaConfig.clientId = "" \/ kankaConfig.redirectUri = "" THEN
    /\ oauthLast' = Respond("authorize", 500, "OAuth client not configured")
    /\ UNCHANGED <<env, oauthAuthRequests, oauthAuthCodes, nRequests, nCodes,
                   nUpstream, inflight, redeemed>>
  ELSE
    /\ nRequests < MaxAuthRequests
    /\ nRequests' = nRequests + 1
    /\ oauthAuthRequests' = [oauthAuthRequests EXCEPT ![requestId] =
                                PendingRequest(q, kankaConfig)]
    /\ oauthLast' = [Respond("authorize", 302, "") EXCEPT
                       !.location = "https://app.kanka.io/oauth/authorize",
                       !.state = requestId]
    /\ UNCHANGED <<env, oauthAuthCodes, nCodes, nUpstream, inflight, redeemed>>

\* oauthAuthRequests.get(requestId), `requestId ? ... : null`
LookupRequest(requestId) ==
  IF requestId \in RequestIds THEN oauthAuthRequests[requestId] ELSE NoRequest

\* variant of CallbackError that answers a fixed error of the gateway
CallbackErrorGeneric(q) ==
  [Respond("callback", 400, "Upstream authorization failed") EXCEPT
     !.forState = q.state]

\* res.status(400).json({ error: String(errorParam), error_description })
CallbackError(q) ==
  [Respond("callback", 400, q.error) EXCEPT
     !.errorDescription = q.error_description, !.forState = q.state]

\* variant of CallbackNotConfigured that does not ask for the client secret
CallbackNotConfiguredWithoutSecret(kankaConfig) ==
  kankaConfig.clientId = "" \/ kankaConfig.redirectUri = ""

\* `!kankaConfig.clientId || !kankaConfig.clientSecret || !kankaConfig.redirectUri`
CallbackNotConfigured(kankaConfig) ==
  \/ kankaConfig.clientId = ""
  \/ kankaConfig.clientSecret = ""
  \/ kankaConfig.redirectUri = ""

\* GET /oauth/callback up to `await axios.post(...)`
OAuthCallback(q) ==
  LET requestId == q.state
      request == LookupRequest(requestId)
      kankaConfig == resolveKankaConfig(Req(q, NoParams),
                       [clientId |-> request.kankaClientId,
                        clientSecret |-> request.kankaClientSecret,
                        redirectUri |-> request.kankaRedirectUri,
                        scope |-> ""])
  IN
  IF q.error # "" THEN
    /\ oauthLast' = CallbackError(q)
    /\ UNCHANGED <<env, oauthAuthRequests, oauthAuthCodes, nRequests, nCodes,
                   nUpstream, inflight, redeemed>>
  ELSE IF q.code = "" THEN
    /\ oauthLast' = [Respond("callback", 400, "Missing code parameter") EXCEPT
                       !.forState = q.state]
    /\ UNCHANGED <<env, oauthAuthRequests, oauthAuthCodes, nRequests, nCodes,
                   nUpstream, inflight, redeemed>>
  ELSE IF CallbackNotConfigured(kankaConfig) THEN
    /\ oauthLast' = [Respond("callback", 500, "OAuth client not configured") EXCEPT
                       !.forState = q.state]
    /\ UNCHANGED <<env, oauthAuthRequests, oauthAuthCodes, nRequests, nCodes,
                   nUpstream, inflight, redeemed>>
  ELSE
    /\ nUpstream < MaxUpstreamCalls
    /\ nUpstream' = nUpstream + 1
    /\ inflight' = inflight \cup
         {[call |-> nUpstream + 1, kind |-> "callback", requestId |-> requestId,
           matched |-> (request # NoRequest), request |-> request,
           config |-> kankaConfig, late |-> (requestId \in Consumed)]}
    /\ UNCHANGED <<env, oauthAuthRequests, oauthAuthCodes, nRequests, nCodes,
                   oauthLast, redeemed>>

\* variant of DeleteRequest that leaves the table alone
DeleteRequestKeep(reqs, requestId) == reqs

\* oauthAuthRequests.delete(requestId)
DeleteRequest(reqs, requestId) == [reqs EXCEPT ![requestId] = NoRequest]

\* variant of MintCode that drops the PKCE challenge and method
MintCodeNoPkce(data, request) ==
  [accessToken |-> data.access_token, refreshToken |-> data.refresh_token,
   expiresIn |-> data.expires_in, codeChallenge |-> "", codeChallengeMethod |-> ""]

\* the value stored under the minted code
MintCode(data, request) ==
  [accessToken |-> data.access_token, refreshToken |-> data.refresh_token,
   expiresIn |-> data.expires_in, codeChallenge |-> request.codeChallenge,
   codeChallengeMethod |-> request.codeChallengeMethod]

\* variant of CallbackRedirect that also carries the upstream access token
CallbackRedirectWithToken(cb, authCode, data) ==
  [Respond("callback", 302, "") EXCEPT
     !.location = cb.request.redirectUri, !.code = authCode,
     !.state = cb.request.state, !.forState = cb.requestId, !.matched = TRUE,
     !.accessToken = data.access_token]

\* res.redirect(`${request.redirectUri}?code=...&state=...`)
CallbackRedirect(cb, authCode, data) ==
  [Respond("callback", 302, "") EXCEPT
     !.location = cb.request.redirectUri, !.code = authCode,
     !.state = cb.request.state, !.forState = cb.requestId, !.matched = TRUE]

\* variant of CallbackTokens that sends the tokens in a redirect
CallbackTokensRedirected(cb, data) ==
  [Respond("callback", 302, "") EXCEPT
     !.location = cb.config.redirectUri,
     !.accessToken = data.access_token, !.refreshToken = data.refresh_token,
     !.expiresIn = data.expires_in, !.forState = cb.requestId, !.late = cb.late]

\* res.json({ token_type, access_token, refresh_token, expires_in }) of the
\* callback that matched no pending request
CallbackTokens(cb, data) ==
  [Respond("callback", 200, "") EXCEPT
     !.accessToken = data.access_token, !.refreshToken = data.refresh_token,
     !.expiresIn = data.expires_in, !.forState = cb.requestId, !.late = cb.late]

\* GET /oauth/callback after the await, the upstream having answered 2xx
OAuthCallbackExchanged(cb) ==
  LET data == UpstreamData(cb.call) IN
  /\ cb \in inflight
  /\ cb.kind = "callback"
  /\ inflight' = inflight \ {cb}
  /\ IF cb.matched THEN
       LET authCode == CodeId(nCodes + 1) IN
       /\ oauthAuthRequests' = DeleteRequest(oauthAuthRequests, cb.requestId)
       /\ nCodes' = nCodes + 1
       /\ oauthAuthCodes' = [oauthAuthCodes EXCEPT ![authCode] =
                               MintCode(data, cb.request)]
       /\ oauthLast' = CallbackRedirect(cb, authCode, data)
     ELSE
       /\ oauthLast' = CallbackTokens(cb, data)
       /\ UNCHANGED <<oauthAuthRequests, oauthAuthCodes, nCodes>>
  /\ UNCHANGED <<env, nRequests, nUpstream, redeemed>>

\* GET /oauth/callback after the await, axios.post having thrown
OAuthCallbackFailed(cb) ==
  /\ cb \in inflight
  /\ cb.kind = "callback"
  /\ inflight' = inflight \ {cb}
  /\ oauthLast' = [Respond("callback", 500, "Token exchange failed") EXCEPT
                     !.forState = cb.requestId, !.matched = cb.matched,
                     !.late = cb.late]
  /\ UNCHANGED <<env, oauthAuthRequests, oauthAuthCodes, nRequests, nCodes,
                 nUpstream, redeemed>>

\* oauthAuthCodes.get(code)
LookupCode(code) == IF code \in CodeIds THEN oauthAuthCodes[code] ELSE NoCode

\* variant of Redeem that leaves the code in the table
RedeemKeep(codes, code) == codes

\* oauthAuthCodes.delete(code) of the authorization_code grant
Redeem(codes, code) == [codes EXCEPT ![code] = NoCode]

\* variant of RefusedVerifier that deletes the code before the check
RefusedVerifierSpendsCode(codes, code) == [codes EXCEPT ![code] = NoCode]

\* the code table after `return res.status(400)...` of a failed verifyPkce:
\* the return comes before oauthAuthCodes.delete(code)
RefusedVerifier(codes, code) == codes

\* variant of TokenBundle that answers the refresh token as access token
TokenBundleSwapped(payload, code) ==
  [Respond("token", 200, "") EXCEPT
     !.accessToken = payload.refreshToken, !.refreshToken = payload.accessToken,
     !.expiresIn = payload.expiresIn, !.forCode = code]

\* res.json({token_type, access_token, refresh_token, expires_in}) of the
\* authorization_code grant
TokenBundle(payload, code) ==
  [Respond("token", 200, "") EXCEPT
     !.accessToken = payload.accessToken, !.refreshToken = payload.refreshToken,
     !.expiresIn = payload.expiresIn, !.forCode = code]

\* variant of RefreshNotConfigured that asks for the client id alone
RefreshNotConfiguredIdOnly(kankaConfig) == kankaConfig.clientId = ""

\* `!kankaConfig.clientId || !kankaConfig.clientSecret`
RefreshNotConfigured(kankaConfig) ==
  kankaConfig.clientId = "" \/ kankaConfig.clientSecret = ""

\* POST /oauth/token up to its first await (the authorization_code grant has
\* none)
OAuthToken(b) ==
  LET kankaConfig == resolveKankaConfig(Req(NoParams, b), NoFallback)
      payload == LookupCode(b.code)
  IN
  IF b.grant_type = "authorization_code" THEN
    IF b.code = "" THEN
      /\ oauthLast' = Respond("token", 400, "Missing code")
      /\ UNCHANGED <<env, oauthAuthRequests, oauthAuthCodes, nRequests, nCodes,
                     nUpstream, inflight, redeemed>>
    ELSE IF payload = NoCode THEN
      /\ oauthLast' = [Respond("token", 400, "Invalid or expired code") EXCEPT
                         !.forCode = b.code]
      /\ UNCHANGED <<env, oauthAuthRequests, oauthAuthCodes, nRequests, nCodes,
                     nUpstream, inflight, redeemed>>
    ELSE IF ~verifyPkce(b.code_verifier, payload.codeChallenge,
                        payload.codeChallengeMethod) THEN
      /\ oauthLast' = [Respond("token", 400, "Invalid code_verifier") EXCEPT
                         !.forCode = b.code]
      /\ oauthAuthCodes' = RefusedVerifier(oauthAuthCodes, b.code)
      /\ UNCHANGED <<env, oauthAuthRequests, nRequests, nCodes,
                     nUpstream, inflight, redeemed>>
    ELSE
      /\ oauthAuthCodes' = Redeem(oauthAuthCodes, b.code)
      /\ oauthLast' = TokenBundle(payload, b.code)
      /\ redeemed' = redeemed \cup {b.code}
      /\ UNCHANGED <<env, oauthAuthRequests, nRequests, nCodes, nUpstream,
                     inflight>>
  ELSE IF b.grant_type = "refresh_token" THEN
    IF b.refresh_token = "" THEN
      /\ oauthLast' = Respond("token", 400, "Missing refresh_token")
      /\ UNCHANGED <<env, oauthAuthRequests, oauthAuthCodes, nRequests, nCodes,
                     nUpstream, inflight, redeemed>>
    ELSE IF RefreshNotConfigured(kankaConfig) THEN
      /\ oauthLast' = Respond("token", 500, "OAuth client not configured")
      /\ UNCHANGED <<env, oauthAuthRequests, oauthAuthCodes, nRequests, nCodes,
                     nUpstream, inflight, redeemed>>
    ELSE
      /\ nUpstream < MaxUpstreamCalls
      /\ nUpstream' = nUpstream + 1
      /\ inflight' = inflight \cup
           {[call |-> nUpstream + 1, kind |-> "refresh", requestId |-> "",
             matched |-> FALSE, request |-> NoRequest, config |-> kankaConfig,
             late |-> FALSE]}
      /\ UNCHANGED <<env, oauthAuthRequests, oauthAuthCodes, nRequests, nCodes,
                     oauthLast, redeemed>>
  ELSE
    /\ oauthLast' = Respond("token", 400, "Unsupported grant_type")
    /\ UNCHANGED <<env, oauthAuthRequests, oauthAuthCodes, nRequests, nCodes,
                   nUpstream, inflight, redeemed>>

\* POST /oauth/token, refresh_token grant, after the await: 2xx upstream
OAuthRefreshed(cb) ==
  LET data == UpstreamData(cb.call) IN
  /\ cb \in inflight
  /\ cb.kind = "refresh"
  /\ inflight' = inflight \ {cb}
  /\ oauthLast' = [Respond("token", 200, "") EXCEPT
                     !.accessToken = data.access_token,
                     !.refreshToken = data.refresh_token,
                     !.expiresIn = data.expires_in]
  /\ UNCHANGED <<env, oauthAuthRequests, oauthAuthCodes, nRequests, nCodes,
                 nUpstream, redeemed>>

\* POST /oauth/token, refresh_token grant, after the await: axios.post threw
OAuthRefreshFailed(cb) ==
  /\ cb \in inflight
  /\ cb.kind = "refresh"
  /\ inflight' = inflight \ {cb}
  /\ oauthLast' = Respond("token", 500, "Token refresh failed")
  /\ UNCHANGED <<env, oauthAuthRequests, oauthAuthCodes, nRequests, nCodes,
                 nUpstream, redeemed>>

\* ------------------------------------------- sessions and their credentials
VARIABLES
  sessionToken,  \* the `token` each server instance was created with, by transport
  lastTool       \* the last tool call a server instance handled

credVars == <<sessionToken, lastTool>>

NoToolCall ==
  [adapter |-> NoAdapter, presented |-> "", finalToken |-> "", missing |-> FALSE]

CredInit ==
  /\ sessionToken = [a \in AdapterIds |-> ""]
  /\ lastTool = NoToolCall

\* the Authorization header and `token` query parameter of a request: none,
\* a Bearer header, a query parameter
NoCredentials == [authorization |-> NoHeader, tokenParam |-> <<>>]
Credentials ==
  {NoCredentials,
   [authorization |-> [scheme |-> "Bearer", credentials |-> "hdrToken"],
    tokenParam |-> <<>>],
   [authorization |-> NoHeader, tokenParam |-> <<"qToken">>]}

\* the JSON-RPC message of a POST that is not an initialize request: a
\* tools/call, its arguments with or without apiToken, or any other message
Messages ==
  {[isCall |-> FALSE, apiToken |-> ""],
   [isCall |-> TRUE, apiToken |-> ""],
   [isCall |-> TRUE, apiToken |-> "argToken"]}

\* the token of the request as the creating branches read it
Presented(c) == SessionToken(c.authorization, c.tokenParam)

\* The CallToolRequestSchema handler of the server instance connected to
\* transport t: `const finalToken = token || KANKA_API_TOKEN`, then "Missing
\* Kanka API Token." when it is empty, else the tool's upstream call with
\* finalToken.  The arguments of the call are not read for it.
CallTool(t, args, c) ==
  [adapter |-> t, presented |-> Presented(c),
   finalToken |-> FinalToken(sessionToken[t]),
   missing |-> (FinalToken(sessionToken[t]) = "")]

\* variant of SessionTokens in which a request on a stored session hands its
\* own token to the session
SessionTokensFollowRequest(route, stored, c) ==
  IF route = "create"
    THEN [sessionToken EXCEPT ![nAdapters + 1] = Presented(c)]
  ELSE IF route = "reuse" THEN [sessionToken EXCEPT ![stored] = Presented(c)]
  ELSE sessionToken

\* createKankaServer(token) in the two creating branches of handleMcpRequest;
\* the branch of a stored session reads neither the header nor the query
SessionTokens(route, stored, c) ==
  IF route = "create"
    THEN [sessionToken EXCEPT ![nAdapters + 1] = Presented(c)]
  ELSE sessionToken

\* handleMcpRequest up to its first await, for a request with credentials c
\* whose body, when it is not an initialize request, is the message msg
McpRequestFrom(m, sid, body, c, msg) ==
  LET stored == Lookup(activeSessions, sid)
      storedTr == IF stored = NoAdapter THEN NoTransport ELSE adapters[stored]
      route == Route(m, sid, body, storedTr)
      handled == /\ route = "reuse"
                 /\ TransportAnswer(storedTr, m, sid, body).effect = "handled"
  IN /\ McpRequest(m, sid, body)
     /\ sessionToken' = SessionTokens(route, stored, c)
     /\ lastTool' = IF handled /\ m = "POST" /\ body = "call" /\ msg.isCall
                      THEN CallTool(stored, msg, c)
                    ELSE lastTool

\* ------------------------------------------------------- statistics timer
VARIABLES
  lastStatsUpdate,   \* 0: Date.now() at startup; 1: Date.now() of a timer run
  lastSessionCount,  \* activeSessions.size at the last report
  lastMemoryUsage    \* heap in use at the last report, in MB

statsVars == <<lastStatsUpdate, lastSessionCount, lastMemoryUsage>>

\* Math.round(process.memoryUsage().heapUsed / 1024 / 1024) as a run reads it
MemoryLevels == {100}

\* activeSessions.size
Size(reg) == Cardinality({sid \in SessionIds : reg[sid] # NoAdapter})

Abs(x) == IF x < 0 THEN -x ELSE x

\* `let lastStatsUpdate = Date.now(); let lastSessionCount =
\* activeSessions.size; let lastMemoryUsage = 0` at startup
StatsInit ==
  /\ lastStatsUpdate = 0
  /\ lastSessionCount = 0
  /\ lastMemoryUsage = 0

\* the condition under which a run reports
StatsDue(elapsed, currentSessionCount, currentMemoryUsage) ==
  \/ elapsed
  \/ currentSessionCount # lastSessionCount
  \/ Abs(currentMemoryUsage - lastMemoryUsage) > 50

\* variant of updateStatsIfNeeded that also drops the sessions whose stream
\* has closed
updateStatsIfNeededEvicting(elapsed, currentMemoryUsage) ==
  /\ lastStatsUpdate' = 1
  /\ lastSessionCount' = Size(activeSessions)
  /\ lastMemoryUsage' = currentMemoryUsage
  /\ activeSessions' =
       [sid \in SessionIds |->
          IF activeSessions[sid] # NoAdapter /\ ~adapters[activeSessions[sid]].resOpen
            THEN NoAdapter ELSE activeSessions[sid]]
  /\ UNCHANGED <<adapters, nAdapters, timers, pending, usedIds, last, oauthVars>>

\* variant of updateStatsIfNeeded that also expires the issued codes
updateStatsIfNeededExpiring(elapsed, currentMemoryUsage) ==
  /\ lastStatsUpdate' = 1
  /\ lastSessionCount' = Size(activeSessions)
  /\ lastMemoryUsage' = currentMemoryUsage
  /\ oauthAuthCodes' = [c \in CodeIds |-> NoCode]
  /\ UNCHANGED <<sessVars, env, oauthAuthRequests, nRequests, nCodes, nUpstream,
                 inflight, oauthLast, redeemed>>

\* One run of the setInterval callback.  elapsed: more than 60 s have passed
\* since lastStatsUpdate, which a run cannot tell from the model's state as
\* the event loop may delay a run for any time.
updateStatsIfNeeded(elapsed, currentMemoryUsage) ==
  LET currentSessionCount == Size(activeSessions) IN
  /\ IF StatsDue(elapsed, currentSessionCount, currentMemoryUsage) THEN
       /\ lastStatsUpdate' = 1
       /\ lastSessionCount' = currentSessionCount
       /\ lastMemoryUsage' = currentMemoryUsage
     ELSE UNCHANGED statsVars
  /\ UNCHANGED <<sessVars, oauthVars>>

\* ------------------------------------------------------- specifications
\* ------------------------------------------------ the helpers on their own
\* verifyPkce and resolveKankaConfig applied to one call drawn at the start
VARIABLES
  pureCall,     \* the arguments of the call
  pureResult    \* what the function returned, once it has

pureVars == <<pureCall, pureResult>>

NoPureCall == [fn |-> ""]
NoPureResult == [done |-> FALSE]

PureIdle == pureCall = NoPureCall /\ pureResult = NoPureResult

\* every combination of the three environment variables being set or not
PureEnvs ==
  [clientId : {"", "envId"}, clientSecret : {"", "envSecret"},
   redirectUri : {"", "envRedirect"}, apiToken : {"", "envToken"}]

PkceMethods == {"", "plain", "S256", "S512"}
PkceCalls ==
  {[fn |-> "verifyPkce", codeVerifier |-> v, codeChallenge |-> c, method |-> m] :
     v \in Verifiers, c \in {"", "v1", "S256:v1"}, m \in PkceMethods}

\* the overrides of the query one by one, those of the form body together
ConfigRequests ==
  {Req([NoParams EXCEPT !.kanka_client_id = qi, !.kanka_client_secret = qs,
                        !.kanka_redirect_uri = qr, !.client_id = ci],
       WithOverride(NoParams, bo)) :
     qi \in {"", "qId"}, qs \in {"", "qSecret"}, qr \in {"", "qRedirect"},
     ci \in {"", "cli"}, bo \in BOOLEAN}
ConfigFallbacks ==
  [clientId : {"", "fbId"}, clientSecret : {"", "fbSecret"},
   redirectUri : {"", "fbRedirect"}, scope : {""}]
ConfigCalls ==
  {[fn |-> "resolveKankaConfig", req |-> r, fallback |-> fb] :
     r \in ConfigRequests, fb \in ConfigFallbacks}

AuthorizationHeaders ==
  {NoHeader}
    \cup [scheme : {"Bearer", "bearer", "Basic"},
          credentials : {"hdrToken", " hdrToken ", " "}]
TokenParams == {<<>>, <<"">>, <<"qToken">>, <<"qToken", "qOther">>}
CredentialCalls ==
  {[fn |-> "SessionToken", authorization |-> h, tokenParam |-> q] :
     h \in AuthorizationHeaders, q \in TokenParams}

ApplySessionToken ==
  /\ pureCall.fn = "SessionToken"
  /\ ~pureResult.done
  /\ pureResult' = [done |-> TRUE,
                    token |-> FinalToken(SessionToken(pureCall.authorization,
                                                      pureCall.tokenParam))]
  /\ UNCHANGED pureCall

ApplyVerifyPkce ==
  /\ pureCall.fn = "verifyPkce"
  /\ ~pureResult.done
  /\ pureResult' = [done |-> TRUE,
                    ok |-> verifyPkce(pureCall.codeVerifier,
                                      pureCall.codeChallenge, pureCall.method)]
  /\ UNCHANGED pureCall

ApplyResolveKankaConfig ==
  /\ pureCall.fn = "resolveKankaConfig"
  /\ ~pureResult.done
  /\ pureResult' = [done |-> TRUE,
                    config |-> resolveKankaConfig(pureCall.req, pureCall.fallback)]
  /\ UNCHANGED pureCall

vars == <<sessVars, oauthVars, pureVars, statsVars, credVars>>

\* G: the identifiers randomUUID() may return in the current state
SessStep(G) ==
  \/ \E r \in McpRequests, sid \in SessionIds \cup {NoSession} :
        McpRequest(r.method, sid, r.body)
  \/ \E p \in pending, id \in G \cup {NoSession} : McpConnected(p, id)
  \/ \E id \in G : SseRequest(id)
  \/ \E p \in pending : SseConnected(p)
  \/ \E t \in AdapterIds : SseStreamClose(t)
  \/ \E tm \in timers : GraceTimerFires(tm)
  \/ \E ep \in {"message", "messages"}, sid \in SessionIds \cup {NoSession} :
        MessagePost(ep, sid)

\* Session ids are opaque: the code only compares them for equality.  The
\* lowest identifier not drawn yet therefore stands for every new value.
FreshIds ==
  LET unused == SessionIds \ usedIds IN
  IF unused = {} THEN {}
  ELSE {CHOOSE i \in unused : \A j \in unused : i <= j}

\* the registry, and requests whose body express.json() refuses
ParseNext ==
  /\ \/ SessStep(FreshIds)
     \/ \E ep \in BodyEndpoints, err \in BodyErrors : BodyRejected(ep, err)
  /\ UNCHANGED <<oauthVars, pureVars, statsVars, credVars>>

\* randomUUID() returns a value it never returned before
SessNext == SessStep(FreshIds) /\ UNCHANGED <<oauthVars, pureVars, statsVars, credVars>>
\* randomUUID() returns a new value or repeats an earlier one
SessNextCollide ==
  SessStep(FreshIds \cup usedIds) /\ UNCHANGED <<oauthVars, pureVars, statsVars, credVars>>

OAuthStep ==
  \/ \E q \in AuthorizeQueries : OAuthAuthorize(q)
  \/ \E q \in CallbackQueries : OAuthCallback(q)
  \/ \E cb \in inflight : OAuthCallbackExchanged(cb)
  \/ \E cb \in inflight : OAuthCallbackFailed(cb)
  \/ \E b \in TokenBodies : OAuthToken(b)
  \/ \E cb \in inflight : OAuthRefreshed(cb)
  \/ \E cb \in inflight : OAuthRefreshFailed(cb)

OAuthNext == OAuthStep /\ UNCHANGED <<sessVars, pureVars, statsVars, credVars>>
\* the relay, every caller using PKCE
PkceStep ==
  \/ \E q \in PkceAuthorizeQueries : OAuthAuthorize(q)
  \/ \E q \in ExchangeQueries : OAuthCallback(q)
  \/ \E cb \in inflight : OAuthCallbackExchanged(cb)
  \/ \E cb \in inflight : OAuthCallbackFailed(cb)
  \/ \E b \in CodeBodies : OAuthToken(b)

PkceNext == PkceStep /\ UNCHANGED <<sessVars, pureVars, statsVars, credVars>>

\* the POST requests to /mcp: an initialize request, a tools/call with or
\* without apiToken, another message
CredRequests ==
  {[body |-> "init", msg |-> [isCall |-> FALSE, apiToken |-> ""]]}
    \cup {[body |-> "call", msg |-> msg] : msg \in Messages}

\* Streamable HTTP sessions, the credentials of their requests and their
\* tool calls
CredStep(G) ==
  \/ \E r \in CredRequests, sid \in SessionIds \cup {NoSession}, c \in Credentials :
        McpRequestFrom("POST", sid, r.body, c, r.msg)
  \/ /\ \E p \in pending, id \in G \cup {NoSession} : McpConnected(p, id)
     /\ UNCHANGED credVars

CredNext == CredStep(FreshIds) /\ UNCHANGED <<oauthVars, pureVars, statsVars>>

\* the setInterval callback, every 30 s
StatsStep ==
  \E elapsed \in BOOLEAN, currentMemoryUsage \in MemoryLevels :
    updateStatsIfNeeded(elapsed, currentMemoryUsage)

StatsNext == StatsStep /\ UNCHANGED <<pureVars, credVars>>

\* sessions and upstream exchanges of the specification of the timers
MaxTimerSessions == 1
MaxTimerExchanges == 1

\* Everything the clock drives, next to the tables it could touch: a few SSE
\* sessions with their close events and grace timers, the relay as a client
\* without PKCE drives it, and the statistics timer.
TimersStep ==
  \/ /\ \/ \E id \in FreshIds : nAdapters < MaxTimerSessions /\ SseRequest(id)
        \/ \E p \in pending : SseConnected(p)
        \/ \E t \in AdapterIds : SseStreamClose(t)
        \/ \E tm \in timers : GraceTimerFires(tm)
     /\ UNCHANGED <<oauthVars, statsVars>>
  \/ /\ \/ OAuthAuthorize(AuthorizeBase)
        \/ \E q \in ExchangeQueries :
             q.state # "" /\ nUpstream < MaxTimerExchanges /\ OAuthCallback(q)
        \/ \E cb \in inflight : OAuthCallbackExchanged(cb)
        \/ \E cb \in inflight : OAuthCallbackFailed(cb)
        \/ \E b \in CodeBodies : b.code # "" /\ b.code_verifier = "" /\ OAuthToken(b)
     /\ UNCHANGED <<sessVars, statsVars>>
  \/ StatsStep

TimersNext == TimersStep /\ UNCHANGED <<pureVars, credVars>>

PureNext ==
  /\ ApplyVerifyPkce \/ ApplyResolveKankaConfig \/ ApplySessionToken
  /\ UNCHANGED <<sessVars, oauthVars, statsVars, credVars>>

Init == SessInit /\ OAuthInit /\ PureIdle /\ StatsInit /\ CredInit
InitPure ==
  /\ SessInit
  /\ OAuthEmpty
  /\ env \in PureEnvs
  /\ pureCall \in PkceCalls \cup ConfigCalls \cup CredentialCalls
  /\ pureResult = NoPureResult
  /\ StatsInit
  /\ CredInit
\* the registry does not read the OAuth configuration
InitSess == Init /\ env = ConfiguredEnv
\* the PKCE check does not read the OAuth configuration
InitPkce == Init /\ env = ConfiguredEnv
Next == SessNext \/ OAuthNext \/ StatsNext

\* the whole server
Spec == Init /\ [][Next]_vars
\* the transports and the session registry alone
SpecSess == InitSess /\ [][SessNext]_vars
\* Node runs a timer callback once its delay has elapsed, and resumes a
\* handler once the promise it awaits has settled
TimerRecords == [sessionId : SessionIds, transport : AdapterIds]
SessFairness ==
  /\ \A tm \in TimerRecords :
       WF_vars(GraceTimerFires(tm) /\ UNCHANGED <<oauthVars, pureVars, statsVars, credVars>>)
  /\ WF_vars((\E p \in pending : SseConnected(p))
               /\ UNCHANGED <<oauthVars, pureVars, statsVars, credVars>>)
  /\ WF_vars((\E p \in pending, id \in FreshIds \cup {NoSession} : McpConnected(p, id))
               /\ UNCHANGED <<oauthVars, pureVars, statsVars, credVars>>)
\* the transports and the session registry, timers firing and awaits resuming
SpecSessFair == SpecSess /\ SessFairness
\* the same, randomUUID() being allowed to repeat a value
SpecCollide == InitSess /\ [][SessNextCollide]_vars
\* the OAuth relay alone
SpecOAuth == Init /\ [][OAuthNext]_vars
\* the transports and the registry, with the requests refused by the body parser
SpecParse == InitSess /\ [][ParseNext]_vars
\* the OAuth relay alone, every authorization request carrying a challenge
SpecPkce == InitPkce /\ [][PkceNext]_vars
\* Streamable HTTP sessions, the tokens they were created with and their tool calls
SpecCred == InitSess /\ [][CredNext]_vars
\* the timers, with the SSE sessions and the relay entries they run next to
SpecTimers == InitSess /\ [][TimersNext]_vars
\* verifyPkce and resolveKankaConfig alone, over every input drawn
SpecPure == InitPure /\ [][PureNext]_vars

\* ------------------------------------------------------------------ claims
SidInputs == SessionIds \cup {NoSession}

\* C1: when the grace timer of an SSE stream fires while the registry maps
\* its session id to another adapter instance than the one whose stream
\* closed, the registry is left as it is, so the newer adapter stays
\* registered.
C1_GraceTimerKeepsNewerAdapter ==
  [][\A tm \in timers \ timers' :
       activeSessions[tm.sessionId] \notin {NoAdapter, tm.transport}
         => activeSessions' = activeSessions]_vars

C1_Witness ==
  /\ last.ep = "timer"
  /\ last.stored \notin {NoAdapter, last.adapter}
  /\ activeSessions[last.sid] = last.stored

\* C2: an entry leaves the registry only in a callback run for the adapter
\* stored under that id (DELETE handled by that adapter, or the grace timer
\* of that adapter); a grace timer that finds anything else stored leaves
\* the registry unchanged.
C2_RemovalOnlyByStoredAdapter ==
  [][/\ \A s \in SessionIds :
          (activeSessions[s] # NoAdapter /\ activeSessions'[s] = NoAdapter)
            => /\ last'.adapter = activeSessions[s]
               /\ last'.sid = s
               /\ \/ last'.ep = "timer"
                  \/ last'.ep = "mcp" /\ last'.method = "DELETE"
     /\ \A tm \in timers \ timers' :
          activeSessions[tm.sessionId] # tm.transport
            => activeSessions' = activeSessions]_vars

C2_Witness ==
  /\ last.ep = "mcp"
  /\ last.method = "DELETE"
  /\ last.status = 200
  /\ last.stored = last.adapter
  /\ activeSessions[last.sid] = NoAdapter

\* C7 as stated: a /mcp request of any method that carries an unregistered
\* session id creates no adapter, leaves the registry unchanged and is
\* answered 400 / -32000.
C7_Original ==
  [][/\ \A r \in McpRequests, sid \in SessionIds :
          (activeSessions[sid] = NoAdapter /\ McpRequest(r.method, sid, r.body))
            => /\ nAdapters' = nAdapters
               /\ activeSessions' = activeSessions]_vars

\* C7 (amended): a /mcp request that carries an unregistered session id
\* leaves the registry unchanged; a POST or a DELETE is rejected by the
\* gateway with 400 / -32000 and creates no adapter, while a GET creates one
\* new adapter, which is handed the request, answers it with an error of
\* code -32000 and is never registered.
C7_UnknownSessionRejected ==
  [][/\ \A r \in McpRequests, sid \in SessionIds :
          (activeSessions[sid] = NoAdapter /\ McpRequest(r.method, sid, r.body))
            => /\ activeSessions' = activeSessions
               /\ IF r.method = "GET"
                    THEN /\ nAdapters' = nAdapters + 1
                         /\ \E p \in pending' \ pending : p.sid = sid
                    ELSE /\ nAdapters' = nAdapters
                         /\ adapters' = adapters
                         /\ last'.status = 400
                         /\ last'.code = -32000
                         /\ last'.adapter = NoAdapter
     /\ \A p \in pending, id \in SidInputs :
          (p.sid # NoSession /\ McpConnected(p, id))
            => /\ activeSessions' = activeSessions
               /\ nAdapters' = nAdapters
               /\ last'.adapter = p.transport
               /\ last'.code = -32000
               /\ \A s \in SessionIds : activeSessions'[s] # p.transport]_vars

C7_Witness ==
  /\ last.ep = "mcp"
  /\ last.method = "POST"
  /\ last.body = "init"
  /\ last.sid # NoSession
  /\ last.stored = NoAdapter
  /\ last.status = 400
  /\ last.code = -32000
  /\ last.created = NoAdapter

\* C8: a /mcp request that carries the id of a registered Streamable HTTP
\* session is handled by the adapter registered under that id and creates
\* no adapter; as long as the entry is there it names that same adapter,
\* and no two adapters ever hold the same session id.
C8_SessionKeepsItsAdapter ==
  [][/\ \A r \in McpRequests, sid \in SessionIds :
          (/\ activeSessions[sid] # NoAdapter
           /\ IsStreamableHTTPServerTransport(adapters[activeSessions[sid]])
           /\ McpRequest(r.method, sid, r.body))
            => /\ last'.adapter = activeSessions[sid]
               /\ last'.created = NoAdapter
               /\ nAdapters' = nAdapters
               /\ pending' = pending
     /\ \A s \in SessionIds :
          activeSessions[s] # NoAdapter
            => activeSessions'[s] \in {activeSessions[s], NoAdapter}
     /\ \A a, b \in 1..nAdapters' :
          (a # b /\ adapters'[a].sessionId # NoSession)
            => adapters'[a].sessionId # adapters'[b].sessionId]_vars

C8_Witness ==
  /\ last.ep = "mcp"
  /\ last.method = "POST"
  /\ last.body = "call"
  /\ last.status = 200
  /\ last.stored # NoAdapter
  /\ last.adapter = last.stored
  /\ activeSessions[last.sid] = last.stored

\* C9 as stated: on /mcp an adapter is created only for a request without
\* session id whose body is an initialize payload.
C9_Original ==
  [][\A r \in McpRequests, sid \in SidInputs :
       (nAdapters' # nAdapters /\ McpRequest(r.method, sid, r.body))
         => (sid = NoSession /\ isInitializePayload(r.body))]_vars

\* C9 (amended): on /mcp an adapter is created only for a POST without
\* session id whose body is an initialize payload, or for a GET that
\* carries no registered session id; every other request that carries no
\* registered session id is rejected with 400 / -32000 and creates no
\* adapter, and the adapter created for a GET is not registered.
C9_AdapterCreatedOnlyForInitializeOrGet ==
  [][/\ \A r \in McpRequests, sid \in SidInputs :
          \/ IF Lookup(activeSessions, sid) # NoAdapter
               THEN nAdapters' = nAdapters
             ELSE IF \/ r.method = "GET"
                     \/ sid = NoSession /\ r.method = "POST" /\ isInitializePayload(r.body)
               THEN nAdapters' = nAdapters + 1
               ELSE /\ nAdapters' = nAdapters
                    /\ adapters' = adapters
                    /\ activeSessions' = activeSessions
                    /\ last'.status = 400
                    /\ last'.code = -32000
                    /\ last'.created = NoAdapter
          \/ ~McpRequest(r.method, sid, r.body)
     /\ \A p \in pending, id \in SidInputs :
          (p.method = "GET" /\ McpConnected(p, id))
            => /\ activeSessions' = activeSessions
               /\ last'.code = -32000]_vars

C9_Witness ==
  /\ last.ep = "mcp"
  /\ last.method = "POST"
  /\ last.body = "call"
  /\ last.sid = NoSession
  /\ last.status = 400
  /\ last.code = -32000
  /\ last.created = NoAdapter
  /\ last.adapter = NoAdapter

\* C10: a request whose session id is registered by an adapter of the other
\* variant is answered 400 / -32000 and is not passed to that adapter, on
\* /mcp (id of an SSE adapter) and on /message and /messages (id of a
\* Streamable HTTP adapter); nothing else changes.
C10_TransportMismatchRejected ==
  [][/\ \A r \in McpRequests, sid \in SessionIds :
          (/\ activeSessions[sid] # NoAdapter
           /\ adapters[activeSessions[sid]].kind = "SSE"
           /\ McpRequest(r.method, sid, r.body))
            => /\ last'.status = 400
               /\ last'.code = -32000
               /\ last'.adapter = NoAdapter
               /\ UNCHANGED <<activeSessions, adapters, nAdapters, pending>>
     /\ \A ep \in {"message", "messages"}, sid \in SessionIds :
          (/\ activeSessions[sid] # NoAdapter
           /\ adapters[activeSessions[sid]].kind = "HTTP"
           /\ MessagePost(ep, sid))
            => /\ last'.status = 400
               /\ last'.code = -32000
               /\ last'.adapter = NoAdapter
               /\ UNCHANGED <<activeSessions, adapters, nAdapters, pending>>]_vars

C10_Witness ==
  /\ last.ep \in {"message", "messages"}
  /\ last.stored # NoAdapter
  /\ adapters[last.stored].kind = "HTTP"
  /\ activeSessions[last.sid] = last.stored
  /\ last.status = 400
  /\ last.code = -32000
  /\ last.adapter = NoAdapter

IssuedCodes == {CodeId(n) : n \in 1..nCodes}

\* C3: an issued code is redeemed at most once: a successful exchange at
\* /oauth/token takes a code that is in the table and was never redeemed,
\* and removes it; a redeemed code stays out of the table, and an exchange
\* that names it is answered 400 "Invalid or expired code" without
\* credentials.
C3_CodeRedeemedAtMostOnce ==
  [][/\ \A b \in CodeBodies :
          (oauthLast'.forCode = b.code /\ OAuthToken(b))
            => /\ (oauthLast'.status = 200)
                    => /\ b.code \in IssuedCodes
                       /\ oauthAuthCodes[b.code] # NoCode
                       /\ b.code \notin redeemed
                       /\ oauthAuthCodes'[b.code] = NoCode
                       /\ b.code \in redeemed'
               /\ (b.code \in redeemed)
                    => /\ oauthLast'.status = 400
                       /\ oauthLast'.error = "Invalid or expired code"
                       /\ oauthLast'.accessToken = ""
                       /\ oauthLast'.refreshToken = ""
     /\ \A c \in redeemed : oauthAuthCodes'[c] = NoCode]_vars

C3_Witness ==
  /\ oauthLast.ep = "token"
  /\ oauthLast.status = 400
  /\ oauthLast.error = "Invalid or expired code"
  /\ oauthLast.forCode \in redeemed

\* C4 as stated: a callback whose state names a request already consumed by
\* a successful callback fails: it is answered with an error and no upstream
\* exchange is started for it.
C4_Original ==
  [][\A q \in ExchangeQueries :
       (q.state \in Consumed /\ OAuthCallback(q))
         => /\ inflight' = inflight
            /\ oauthLast'.status >= 400]_vars

\* C4 (amended): a successful matched callback removes the pending request,
\* which never comes back; a later callback with the same state is not
\* matched to it: it touches neither table, is handled as a direct callback
\* (a configuration error, or an upstream exchange answered with the raw
\* token payload or an exchange error), mints no code and redirects nowhere.
C4_ConsumedRequestNotMatchedAgain ==
  [][/\ \A cb \in inflight :
          (cb.matched /\ OAuthCallbackExchanged(cb))
            => cb.requestId \in Consumed'
     /\ \A r \in Consumed : r \in Consumed'
     /\ \A q \in ExchangeQueries :
          (q.state \in Consumed /\ OAuthCallback(q))
            => /\ oauthAuthRequests' = oauthAuthRequests
               /\ oauthAuthCodes' = oauthAuthCodes
               /\ \A cb \in inflight' \ inflight : ~cb.matched /\ cb.late
               /\ (inflight' = inflight) => oauthLast'.status = 500
     /\ \A cb \in inflight :
          (cb.kind = "callback" /\ cb.late)
            => /\ ~cb.matched
               /\ OAuthCallbackExchanged(cb)
                    => /\ oauthAuthRequests' = oauthAuthRequests
                       /\ oauthAuthCodes' = oauthAuthCodes
                       /\ oauthLast'.status = 200
                       /\ oauthLast'.location = ""
                       /\ oauthLast'.code = ""
               /\ OAuthCallbackFailed(cb)
                    => /\ oauthAuthRequests' = oauthAuthRequests
                       /\ oauthAuthCodes' = oauthAuthCodes
                       /\ oauthLast'.status = 500]_vars

C4_Witness ==
  /\ oauthLast.ep = "callback"
  /\ oauthLast.late
  /\ oauthLast.forState \in Consumed
  /\ oauthLast.status = 200
  /\ oauthLast.accessToken # ""
  /\ oauthLast.code = ""

\* C5 as stated: when the upstream exchange of a matched callback fails, the
\* callback answers an error and the next callback with the same state is
\* not matched to that pending request.
C5_FailedExchangeSpendsRequest ==
  [][/\ \A cb \in inflight :
          (cb.matched /\ OAuthCallbackFailed(cb)) => oauthLast'.status = 500
     /\ \A q \in ExchangeQueries :
          (/\ oauthLast.ep = "callback"
           /\ oauthLast.error = "Token exchange failed"
           /\ oauthLast.matched
           /\ q.state = oauthLast.forState
           /\ OAuthCallback(q))
            => \A cb \in inflight' \ inflight : ~cb.matched]_vars

\* C6: when the upstream exchange of a matched callback succeeds, the
\* pending request is gone, exactly one code is added to the code table and
\* nothing else in it changes; the new entry holds the upstream's access
\* token, refresh token and expiry and the PKCE challenge and method stored
\* with the request; the answer is a redirect to the request's redirect_uri
\* with the minted code and the caller's state.
C6_CallbackMintsOneCode ==
  [][\A cb \in inflight :
       (cb.matched /\ OAuthCallbackExchanged(cb))
         => /\ oauthAuthRequests'[cb.requestId] = NoRequest
            /\ oauthAuthRequests[cb.requestId] \in {cb.request, NoRequest}
            /\ \E c \in CodeIds :
                 /\ oauthAuthCodes[c] = NoCode
                 /\ c \notin IssuedCodes
                 /\ \A d \in CodeIds \ {c} : oauthAuthCodes'[d] = oauthAuthCodes[d]
                 /\ oauthAuthCodes'[c] =
                      [accessToken |-> UpstreamData(cb.call).access_token,
                       refreshToken |-> UpstreamData(cb.call).refresh_token,
                       expiresIn |-> UpstreamData(cb.call).expires_in,
                       codeChallenge |-> cb.request.codeChallenge,
                       codeChallengeMethod |-> cb.request.codeChallengeMethod]
                 /\ oauthLast'.status = 302
                 /\ oauthLast'.location = cb.request.redirectUri
                 /\ oauthLast'.code = c
                 /\ oauthLast'.state = cb.request.state
                 /\ oauthLast'.accessToken = ""]_vars

C6_Witness ==
  /\ oauthLast.ep = "callback"
  /\ oauthLast.status = 302
  /\ oauthLast.matched
  /\ oauthLast.state = "st"
  /\ oauthLast.location = "https://client/cb"
  /\ oauthLast.code \in CodeIds
  /\ oauthAuthCodes[oauthLast.code].codeChallenge = "S256:v1"
  /\ oauthAuthCodes[oauthLast.code].codeChallengeMethod = "S256"
  /\ oauthAuthCodes[oauthLast.code].accessToken # ""
  /\ oauthAuthRequests[oauthLast.forState] = NoRequest

\* C11 as stated: a POST to /message or /messages that names the session of
\* an SSE adapter whose stream is open, or whose grace timer is pending, is
\* forwarded to that adapter and accepted (202); a POST that names an id
\* with no registry entry is answered 400 without the JSON-RPC session error
\* and reaches no adapter.
C11_PostAcceptedUntilEviction ==
  [][\A ep \in {"message", "messages"}, sid \in SessionIds :
       LET t == activeSessions[sid] IN
       /\ (/\ t # NoAdapter
           /\ IsSSEServerTransport(adapters[t])
           /\ \/ adapters[t].resOpen
              \/ [sessionId |-> sid, transport |-> t] \in timers
           /\ MessagePost(ep, sid))
            => /\ last'.adapter = t
               /\ last'.status = 202
       /\ (t = NoAdapter /\ MessagePost(ep, sid))
            => /\ last'.adapter = NoAdapter
               /\ last'.status = 400
               /\ last'.code = 0]_vars

\* C13 as stated: verifyPkce answers true when there is no challenge, the
\* S256 comparison under "S256", the verbatim comparison under "plain", and
\* false under every other value of the method.
C13_Original ==
  (pureResult.done /\ pureCall.fn = "verifyPkce") =>
    pureResult.ok =
      (IF pureCall.codeChallenge = "" THEN TRUE
       ELSE IF pureCall.method = "S256"
         THEN pureCall.codeChallenge = "S256:" \o pureCall.codeVerifier
       ELSE IF pureCall.method = "plain"
         THEN pureCall.codeVerifier = pureCall.codeChallenge
       ELSE FALSE)

\* C13 amended: as above, an absent method counting as "plain" and an absent
\* verifier failing against every challenge; a method that is present and is
\* neither "plain" nor "S256" fails.
C13_VerifyPkceByMethod ==
  (pureResult.done /\ pureCall.fn = "verifyPkce") =>
    pureResult.ok =
      (\/ pureCall.codeChallenge = ""
       \/ /\ pureCall.codeVerifier # ""
          /\ \/ /\ pureCall.method \in {"", "plain"}
                /\ pureCall.codeVerifier = pureCall.codeChallenge
             \/ /\ pureCall.method = "S256"
                /\ pureCall.codeChallenge = "S256:" \o pureCall.codeVerifier)

C13_Witness ==
  /\ pureResult.done
  /\ pureCall.fn = "verifyPkce"
  /\ pureCall.method = ""
  /\ pureCall.codeChallenge = "v1"
  /\ pureCall.codeVerifier = "v1"
  /\ pureResult.ok

\* C20: resolveKankaConfig returns, for the client id, the client secret and
\* the redirect URI alike, the first value present among the per-request
\* override (query before form body), the process default, and what the caller
\* supplied (its client_id, then the fallback argument).
C20_ConfigPrecedence ==
  (pureResult.done /\ pureCall.fn = "resolveKankaConfig") =>
    LET q == pureCall.req.query
        b == pureCall.req.body
        fb == pureCall.fallback
        got == pureResult.config
        ovId == IF q.kanka_client_id # "" THEN q.kanka_client_id
                ELSE b.kanka_client_id
        ovSecret == IF q.kanka_client_secret # "" THEN q.kanka_client_secret
                    ELSE b.kanka_client_secret
        ovRedirect == IF q.kanka_redirect_uri # "" THEN q.kanka_redirect_uri
                      ELSE b.kanka_redirect_uri
        callerId == IF q.client_id # "" THEN q.client_id
                    ELSE IF b.client_id # "" THEN b.client_id ELSE fb.clientId
    IN /\ IF ovId # "" THEN got.clientId = ovId
          ELSE IF env.clientId # "" THEN got.clientId = env.clientId
          ELSE got.clientId = callerId
       /\ IF ovSecret # "" THEN got.clientSecret = ovSecret
          ELSE IF env.clientSecret # "" THEN got.clientSecret = env.clientSecret
          ELSE got.clientSecret = fb.clientSecret
       /\ IF ovRedirect # "" THEN got.redirectUri = ovRedirect
          ELSE IF env.redirectUri # "" THEN got.redirectUri = env.redirectUri
          ELSE fb.redirectUri # "" => got.redirectUri = fb.redirectUri

C20_Witness ==
  /\ pureResult.done
  /\ pureCall.fn = "resolveKankaConfig"
  /\ pureCall.req.query.kanka_client_secret = "qSecret"
  /\ env.clientSecret = "envSecret"
  /\ pureResult.config.clientSecret = "qSecret"
  /\ pureCall.req.query.kanka_client_id = ""
  /\ pureCall.req.body.kanka_client_id = ""
  /\ env.clientId = "envId"
  /\ pureCall.fallback.clientId = "fbId"
  /\ pureResult.config.clientId = "envId"
  /\ pureCall.req.query.kanka_redirect_uri = ""
  /\ pureCall.req.body.kanka_redirect_uri = ""
  /\ env.redirectUri = ""
  /\ pureCall.fallback.redirectUri = "fbRedirect"
  /\ pureResult.config.redirectUri = "fbRedirect"

\* C16 as stated: when a callback matches a pending request and goes on to the
\* upstream token exchange, the exchange is made with the client id, client
\* secret and redirect URI stored in that pending request, whatever the
\* process environment holds.
C16_ExchangeUsesStoredConfig ==
  [][\A q \in CallbackQueries :
       LET request == LookupRequest(q.state) IN
       (request # NoRequest /\ OAuthCallback(q) /\ nUpstream' = nUpstream + 1)
         => \A cb \in inflight' \ inflight :
              /\ cb.config.clientId = request.kankaClientId
              /\ cb.config.clientSecret = request.kankaClientSecret
              /\ cb.config.redirectUri = request.kankaRedirectUri]_vars

\* C14: the response of a callback that matched a pending request, whether the
\* upstream exchange succeeded or failed, carries no access token and no
\* refresh token; the tokens stored under a code appear in a response only as
\* the answer 200 of /oauth/token to the exchange of that code.
C14_MatchedCallbackHidesTokens ==
  [][/\ \A cb \in inflight :
          (/\ cb.kind = "callback"
           /\ cb.matched
           /\ cb \notin inflight'
           /\ OAuthCallbackExchanged(cb) \/ OAuthCallbackFailed(cb))
            => /\ oauthLast'.ep = "callback"
               /\ oauthLast'.accessToken = ""
               /\ oauthLast'.refreshToken = ""
     /\ \A c \in CodeIds :
          (/\ oauthAuthCodes[c] # NoCode
           /\ \/ oauthLast'.accessToken = oauthAuthCodes[c].accessToken
              \/ oauthLast'.refreshToken = oauthAuthCodes[c].refreshToken)
            => /\ oauthLast'.ep = "token"
               /\ oauthLast'.status = 200
               /\ oauthLast'.forCode = c]_vars

C14_Witness ==
  /\ oauthLast.ep = "callback"
  /\ oauthLast.status = 302
  /\ oauthLast.matched
  /\ oauthLast.accessToken = ""
  /\ oauthLast.refreshToken = ""
  /\ oauthLast.code \in CodeIds
  /\ oauthAuthCodes[oauthLast.code].accessToken # ""
  /\ oauthAuthCodes[oauthLast.code].refreshToken # ""

\* C15: a matched callback stores under its new code the tokens and expiry of
\* its own upstream answer and touches no other code; a stored bundle never
\* changes until it is removed; and a successful exchange of a code answers
\* exactly the bundle stored under that code.
C15_BundleOfItsOwnCallback ==
  [][/\ \A cb \in inflight :
          (/\ cb.kind = "callback"
           /\ cb.matched
           /\ cb \notin inflight'
           /\ OAuthCallbackExchanged(cb))
            => LET authCode == oauthLast'.code
                   data == UpstreamData(cb.call) IN
               /\ authCode \in CodeIds
               /\ oauthAuthCodes[authCode] = NoCode
               /\ oauthAuthCodes'[authCode].accessToken = data.access_token
               /\ oauthAuthCodes'[authCode].refreshToken = data.refresh_token
               /\ oauthAuthCodes'[authCode].expiresIn = data.expires_in
               /\ \A c \in CodeIds \ {authCode} :
                    oauthAuthCodes'[c] = oauthAuthCodes[c]
     /\ \A c \in CodeIds :
          oauthAuthCodes[c] # NoCode
            => oauthAuthCodes'[c] \in {oauthAuthCodes[c], NoCode}
     /\ \A b \in CodeBodies :
          (/\ b.code \in CodeIds
           /\ oauthLast'.forCode = b.code
           /\ oauthLast'.status = 200
           /\ OAuthToken(b))
            => /\ oauthLast'.accessToken = oauthAuthCodes[b.code].accessToken
               /\ oauthLast'.refreshToken = oauthAuthCodes[b.code].refreshToken
               /\ oauthLast'.expiresIn = oauthAuthCodes[b.code].expiresIn]_vars

\* a second code has been exchanged while the first is still stored
C15_Witness ==
  /\ oauthLast.ep = "token"
  /\ oauthLast.status = 200
  /\ oauthLast.forCode = CodeId(2)
  /\ oauthLast.accessToken = UpstreamData(2).access_token
  /\ oauthAuthCodes[CodeId(1)] # NoCode
  /\ oauthAuthCodes[CodeId(1)].accessToken = UpstreamData(1).access_token

\* C17: an authorization request that is accepted takes a requestId that
\* names no pending request, stores under it one pending request holding the
\* caller's redirect_uri, state and PKCE parameters, leaves every other entry
\* alone, and redirects to the upstream authorization endpoint with
\* state = requestId, which is not the caller's state.
C17_AuthorizeStoresOneRequest ==
  [][\A q \in AuthorizeQueries :
       (oauthLast'.ep = "authorize" /\ oauthLast'.status = 302 /\ OAuthAuthorize(q))
         => LET requestId == oauthLast'.state IN
            /\ requestId \in RequestIds
            /\ oauthAuthRequests[requestId] = NoRequest
            /\ requestId \notin Consumed
            /\ oauthAuthRequests'[requestId] # NoRequest
            /\ oauthAuthRequests'[requestId].redirectUri = q.redirect_uri
            /\ oauthAuthRequests'[requestId].state = q.state
            /\ oauthAuthRequests'[requestId].codeChallenge = q.code_challenge
            /\ oauthAuthRequests'[requestId].codeChallengeMethod =
                 q.code_challenge_method
            /\ \A r \in RequestIds \ {requestId} :
                 oauthAuthRequests'[r] = oauthAuthRequests[r]
            /\ oauthLast'.location = "https://app.kanka.io/oauth/authorize"
            /\ requestId # q.state]_vars

C17_Witness ==
  /\ oauthLast.ep = "authorize"
  /\ oauthLast.status = 302
  /\ oauthLast.state \in RequestIds
  /\ oauthAuthRequests[oauthLast.state].state = "st"
  /\ oauthAuthRequests[oauthLast.state].redirectUri = "https://client/cb"
  /\ oauthAuthRequests[oauthLast.state].codeChallenge = "S256:v1"
  /\ oauthAuthRequests[oauthLast.state].codeChallengeMethod = "S256"

\* C18: an authorization request whose response_type is not "code" is
\* answered 400 "Invalid OAuth authorization request"; nothing is stored and
\* the answer is no redirect.
C18_WrongResponseTypeRejected ==
  [][\A q \in AuthorizeQueries :
       (q.response_type # "code" /\ oauthLast'.ep = "authorize" /\ OAuthAuthorize(q))
         => /\ oauthLast'.status = 400
            /\ oauthLast'.error = "Invalid OAuth authorization request"
            /\ oauthLast'.location = ""
            /\ oauthAuthRequests' = oauthAuthRequests
            /\ nRequests' = nRequests]_vars

C18_Witness ==
  /\ oauthLast.ep = "authorize"
  /\ oauthLast.status = 400
  /\ oauthLast.error = "Invalid OAuth authorization request"
  /\ oauthLast.location = ""
  /\ \A r \in RequestIds : oauthAuthRequests[r] = NoRequest

\* C19 as stated: an authorization request with response_type=code and a
\* redirect_uri is never answered as an invalid request, whichever other
\* parameters are absent.
C19_Original ==
  [][\A q \in AuthorizeQueries :
       (/\ q.response_type = "code"
        /\ q.redirect_uri # ""
        /\ oauthLast'.ep = "authorize"
        /\ OAuthAuthorize(q))
         => /\ oauthLast'.status # 400
            /\ oauthLast'.error # "Invalid OAuth authorization request"]_vars

\* C19 amended: an authorization request with response_type=code, a client_id
\* and a redirect_uri is never answered as an invalid request; it goes on to
\* the configuration and is answered by the redirect or by "OAuth client not
\* configured".
C19_ValidRequestProceeds ==
  [][\A q \in AuthorizeQueries :
       (/\ q.response_type = "code"
        /\ q.client_id # ""
        /\ q.redirect_uri # ""
        /\ oauthLast'.ep = "authorize"
        /\ OAuthAuthorize(q))
         => /\ oauthLast'.error # "Invalid OAuth authorization request"
            /\ \/ oauthLast'.status = 302
               \/ /\ oauthLast'.status = 500
                  /\ oauthLast'.error = "OAuth client not configured"]_vars

\* accepted with no state, no PKCE parameter and no override
C19_Witness ==
  /\ oauthLast.ep = "authorize"
  /\ oauthLast.status = 302
  /\ oauthLast.state \in RequestIds
  /\ oauthAuthRequests[oauthLast.state].clientId = "cli"
  /\ oauthAuthRequests[oauthLast.state].state = ""
  /\ oauthAuthRequests[oauthLast.state].codeChallenge = ""
  /\ oauthAuthRequests[oauthLast.state].kankaClientSecret \in {"", "envSecret"}

\* C12: at /oauth/token, for a code stored with a PKCE challenge, the bundle is
\* answered only if the code_verifier satisfies the stored method (the
\* verifier equal to the challenge under "plain" or under no method, its
\* hash equal to the challenge under "S256"); otherwise the answer is the
\* error 400, carries no credential and leaves the code where it is.
C12_BundleOnlyWithValidVerifier ==
  [][\A b \in CodeBodies :
       (/\ b.code \in CodeIds
        /\ oauthAuthCodes[b.code].codeChallenge # ""
        /\ oauthLast'.forCode = b.code
        /\ OAuthToken(b))
         => LET payload == oauthAuthCodes[b.code]
                satisfied ==
                  /\ b.code_verifier # ""
                  /\ \/ /\ payload.codeChallengeMethod \in {"", "plain"}
                        /\ b.code_verifier = payload.codeChallenge
                     \/ /\ payload.codeChallengeMethod = "S256"
                        /\ payload.codeChallenge = "S256:" \o b.code_verifier
            IN /\ oauthLast'.status = 200 => satisfied
               /\ ~satisfied => /\ oauthLast'.status = 400
                                /\ oauthLast'.error = "Invalid code_verifier"
                                /\ oauthLast'.accessToken = ""
                                /\ oauthLast'.refreshToken = ""
                                /\ oauthAuthCodes' = oauthAuthCodes]_vars

\* a wrong verifier was refused for a code stored under "plain", and the code
\* is still there
C12_Witness ==
  /\ oauthLast.ep = "token"
  /\ oauthLast.status = 400
  /\ oauthLast.error = "Invalid code_verifier"
  /\ oauthLast.forCode \in CodeIds
  /\ oauthAuthCodes[oauthLast.forCode].codeChallengeMethod = "plain"
  /\ oauthAuthCodes[oauthLast.forCode].accessToken # ""

\* C21: a callback that carries an upstream error is answered 400 with that
\* error and its description as received; it starts no upstream exchange and
\* leaves the pending requests and the issued codes as they are, also when its
\* state names a pending request.
C21_UpstreamErrorSurfaced ==
  [][\A q \in CallbackQueries :
       (q.error # "" /\ oauthLast'.ep = "callback" /\ OAuthCallback(q))
         => /\ oauthLast'.status = 400
            /\ oauthLast'.error = q.error
            /\ oauthLast'.errorDescription = q.error_description
            /\ oauthLast'.location = ""
            /\ oauthLast'.accessToken = ""
            /\ nUpstream' = nUpstream
            /\ inflight' = inflight
            /\ oauthAuthRequests' = oauthAuthRequests
            /\ oauthAuthCodes' = oauthAuthCodes]_vars

\* the error was answered for a state whose pending request is still stored
C21_Witness ==
  /\ oauthLast.ep = "callback"
  /\ oauthLast.status = 400
  /\ oauthLast.error = "access_denied"
  /\ oauthLast.errorDescription = "denied by the user"
  /\ oauthLast.forState \in RequestIds
  /\ oauthAuthRequests[oauthLast.forState] # NoRequest

RefreshBodies == {b \in TokenBodies : b.grant_type = "refresh_token"}

\* C23 as stated: a refresh_token request for which no upstream client secret
\* resolves is answered 500 "OAuth client not configured" and starts no
\* upstream call.
C23_Original ==
  [][\A b \in RefreshBodies :
       (/\ b.kanka_client_secret = ""
        /\ env.clientSecret = ""
        /\ oauthLast'.ep = "token"
        /\ OAuthToken(b))
         => /\ oauthLast'.status = 500
            /\ oauthLast'.error = "OAuth client not configured"
            /\ nUpstream' = nUpstream
            /\ inflight' = inflight]_vars

\* C23 amended: the same of a refresh_token request that carries a refresh
\* token; one that carries none is answered 400 before the configuration is
\* looked at, and starts no upstream call either.
C23_RefreshWithoutSecretFails ==
  [][\A b \in RefreshBodies :
       (/\ b.kanka_client_secret = ""
        /\ env.clientSecret = ""
        /\ oauthLast'.ep = "token"
        /\ OAuthToken(b))
         => /\ nUpstream' = nUpstream
            /\ inflight' = inflight
            /\ oauthLast'.accessToken = ""
            /\ IF b.refresh_token # ""
               THEN /\ oauthLast'.status = 500
                    /\ oauthLast'.error = "OAuth client not configured"
               ELSE /\ oauthLast'.status = 400
                    /\ oauthLast'.error = "Missing refresh_token"]_vars

C23_Witness ==
  /\ oauthLast.ep = "token"
  /\ oauthLast.status = 500
  /\ oauthLast.error = "OAuth client not configured"
  /\ env.clientSecret = ""
  /\ nUpstream = 0
  /\ inflight = {}

\* C24: a request to /mcp, /message, /messages or /oauth/token whose JSON body
\* does not parse is answered 400 with the JSON-RPC code -32700, never 500;
\* no route runs, so the registry, the transports, the pending requests and
\* the issued codes are what they were.
C24_MalformedJsonAnswered ==
  [][\A ep \in BodyEndpoints :
       (last'.body = "malformed" /\ BodyRejected(ep, JsonParseFailed))
         => /\ last'.ep = ep
            /\ last'.status = 400
            /\ last'.code = -32700
            /\ last'.adapter = NoAdapter
            /\ last'.created = NoAdapter
            /\ activeSessions' = activeSessions
            /\ adapters' = adapters
            /\ pending' = pending
            /\ timers' = timers
            /\ oauthAuthRequests' = oauthAuthRequests
            /\ oauthAuthCodes' = oauthAuthCodes]_vars

\* a parse error was answered on /mcp while a session was registered
C24_Witness ==
  /\ last.ep = "mcp"
  /\ last.body = "malformed"
  /\ last.status = 400
  /\ last.code = -32700
  /\ \E sid \in SessionIds : activeSessions[sid] # NoAdapter

\* C25 as stated: every error response of /mcp, /message and /messages is a
\* JSON-RPC envelope whose code is -32700, -32600, -32000 or -32603 (a
\* response written without an envelope has code 0 here).
C25_ErrorsAreJsonRpcEnvelopes ==
  (last.ep \in {"mcp", "message", "messages"} /\ last.status >= 400)
    => last.code \in {-32700, -32600, -32000, -32603}

\* C26 as stated, for the exception handlePostMessage throws: a POST to
\* /message or /messages during whose dispatch an exception is thrown is
\* answered with the internal-error envelope, code -32603.
C26_ExceptionAnsweredInternalError ==
  [][\A ep \in {"message", "messages"}, sid \in SessionIds :
       LET t == activeSessions[sid] IN
       (/\ t # NoAdapter
        /\ IsSSEServerTransport(adapters[t])
        /\ PostMessageThrows(adapters[t])
        /\ last'.ep = ep
        /\ MessagePost(ep, sid))
         => last'.code = -32603]_vars

\* C27 as stated: a request that names a session id and finds an adapter
\* registered under it finds an adapter whose connect() has completed, also
\* when it runs while the handler that created the session is suspended.
C27_LookupFindsConnectedAdapter ==
  [][/\ \A ep \in {"message", "messages"}, sid \in SessionIds :
          (activeSessions[sid] # NoAdapter /\ last'.ep = ep /\ MessagePost(ep, sid))
            => adapters[activeSessions[sid]].connected
     /\ \A r \in McpRequests, sid \in SessionIds :
          (/\ activeSessions[sid] # NoAdapter
           /\ last'.ep = "mcp"
           /\ McpRequest(r.method, sid, r.body))
            => adapters[activeSessions[sid]].connected]_vars

\* C28 as stated: once the stream of a registered SSE session has closed, the
\* session is eventually removed from the registry, at whatever point after
\* its registration the stream closed.
C28_ClosedSseSessionEvicted ==
  \A t \in AdapterIds, sid \in SessionIds :
    [](( /\ adapters[t].kind = "SSE"
         /\ adapters[t].sessionId = sid
         /\ ~adapters[t].resOpen
         /\ activeSessions[sid] = t )
       => <>(activeSessions[sid] # t))


\* a Streamable HTTP transport took this id at its initialize request and is
\* no longer the transport registered under it
Terminated(sid) ==
  \E t \in 1..nAdapters :
    /\ adapters[t].kind = "HTTP"
    /\ adapters[t].sessionId = sid
    /\ activeSessions[sid] # t

\* C29: a DELETE /mcp that the session's transport accepts removes the id
\* from the registry; from then on the id stays out of the registry, and every
\* request that carries it is refused: 400 with code -32000 on /mcp, 400 on
\* /message and /messages.
C29_TerminatedSessionStaysTerminated ==
  [][\A sid \in SessionIds :
       /\ (/\ activeSessions[sid] # NoAdapter
           /\ last'.method = "DELETE"
           /\ last'.status = 200
           /\ McpRequest("DELETE", sid, "none"))
            => /\ activeSessions'[sid] = NoAdapter
               /\ Terminated(sid)'
       /\ Terminated(sid)
            => /\ activeSessions'[sid] = NoAdapter
               /\ Terminated(sid)'
               /\ (/\ last' # last
                   /\ last'.sid = sid
                   /\ last'.ep \in {"mcp", "message", "messages"})
                    => /\ last'.status = 400
                       /\ last'.ep = "mcp" => last'.code = -32000]_vars

\* a GET that carried the id of a terminated session was refused
C29_Witness ==
  /\ last.ep = "mcp"
  /\ last.method = "GET"
  /\ last.sid \in SessionIds
  /\ Terminated(last.sid)
  /\ activeSessions[last.sid] = NoAdapter
  /\ last.status = 400
  /\ last.code = -32000

\* C30: the credential of a new session is the token of the Authorization
\* header when the header is a Bearer header with a token, else the first
\* value of the `token` query parameter when it is not empty, else the
\* process-wide default token.
C30_CredentialPrecedence ==
  (pureResult.done /\ pureCall.fn = "SessionToken") =>
    LET h == pureCall.authorization
        q == pureCall.tokenParam
        bearer == /\ h.scheme \in {"Bearer", "bearer"}
                  /\ h.credentials \in {"hdrToken", " hdrToken "}
        inQuery == q # <<>> /\ q[1] # ""
    IN pureResult.token =
         (IF bearer THEN "hdrToken"
          ELSE IF inQuery THEN q[1]
          ELSE env.apiToken)

C30_Witness ==
  /\ pureResult.done
  /\ pureCall.fn = "SessionToken"
  /\ pureCall.authorization = [scheme |-> "Bearer", credentials |-> "hdrToken"]
  /\ pureCall.tokenParam = <<"qToken">>
  /\ env.apiToken = "envToken"
  /\ pureResult.token = "hdrToken"

\* C37 as stated: at most one code is ever minted for a pending request.
\* The callback that mints a code removes the request, and request ids are
\* never issued twice, so this says that a callback resumed after its
\* upstream exchange mints a code only when the request it looked up before
\* the exchange is still in the table.
C37_OneCodePerPendingRequest ==
  [][\A cb \in inflight :
       (/\ cb.matched
        /\ nCodes' = nCodes + 1
        /\ OAuthCallbackExchanged(cb))
         => oauthAuthRequests[cb.requestId] # NoRequest]_vars

\* C40: when the code named at the token endpoint was minted for a request
\* that carried a code_challenge and no code_challenge_method, the exchange
\* succeeds exactly when the code_verifier sent equals the stored challenge,
\* as under the "plain" method; otherwise it is answered 400 "Invalid
\* code_verifier".
C40_AbsentMethodIsPlain ==
  [][\A b \in CodeBodies :
       (/\ b.code \in CodeIds
        /\ oauthLast'.forCode = b.code
        /\ oauthAuthCodes[b.code].codeChallenge # ""
        /\ oauthAuthCodes[b.code].codeChallengeMethod = ""
        /\ OAuthToken(b))
         => IF b.code_verifier = oauthAuthCodes[b.code].codeChallenge
              THEN /\ oauthLast'.status = 200
                   /\ oauthLast'.accessToken = oauthAuthCodes[b.code].accessToken
              ELSE /\ oauthLast'.status = 400
                   /\ oauthLast'.error = "Invalid code_verifier"
                   /\ oauthLast'.accessToken = ""]_vars

\* an exchange was refused for a verifier other than the challenge stored
\* without a method
C40_Witness ==
  /\ oauthLast.ep = "token"
  /\ oauthLast.error = "Invalid code_verifier"
  /\ oauthLast.forCode \in CodeIds
  /\ oauthAuthCodes[oauthLast.forCode].codeChallenge = "v1"
  /\ oauthAuthCodes[oauthLast.forCode].codeChallengeMethod = ""

\* C39: a callback with a code whose state names a pending request, when no
\* client secret was stored with the request, none comes with the callback
\* and none is set for the process, is answered 500 "OAuth client not
\* configured"; no upstream call is started and both tables, the pending
\* request included, are left as they were.
C39_MatchedCallbackWithoutSecret ==
  [][\A q \in ExchangeQueries :
       (/\ LookupRequest(q.state) # NoRequest
        /\ LookupRequest(q.state).kankaClientSecret = ""
        /\ q.kanka_client_secret = ""
        /\ env.clientSecret = ""
        /\ OAuthCallback(q))
         => /\ oauthLast'.ep = "callback"
            /\ oauthLast'.status = 500
            /\ oauthLast'.error = "OAuth client not configured"
            /\ oauthLast'.forState = q.state
            /\ nUpstream' = nUpstream
            /\ inflight' = inflight
            /\ oauthAuthRequests' = oauthAuthRequests
            /\ oauthAuthCodes' = oauthAuthCodes]_vars

\* the request is still pending after the callback that named it was refused
C39_Witness ==
  /\ oauthLast.ep = "callback"
  /\ oauthLast.status = 500
  /\ oauthLast.error = "OAuth client not configured"
  /\ oauthLast.forState \in RequestIds
  /\ oauthAuthRequests[oauthLast.forState] # NoRequest
  /\ oauthAuthRequests[oauthLast.forState].kankaClientId # ""
  /\ oauthAuthRequests[oauthLast.forState].kankaClientSecret = ""
  /\ env.clientSecret = ""
  /\ nUpstream = 0

\* C38: an authorization_code exchange that is refused (no code, a code that
\* is not in the table, a verifier that fails the PKCE check) leaves the code
\* table as it was; so a code survives a failed PKCE check, and as long as
\* it is in the table an exchange that names it with the verifier matching
\* its challenge is answered with its tokens.
C38_RefusedExchangeKeepsCode ==
  [][\A b \in CodeBodies :
       /\ (/\ oauthLast'.forCode = b.code
           /\ oauthLast'.status = 400
           /\ OAuthToken(b))
            => /\ oauthAuthCodes' = oauthAuthCodes
               /\ oauthLast'.error \in
                    {"Missing code", "Invalid or expired code", "Invalid code_verifier"}
               /\ oauthLast'.accessToken = ""
       /\ (/\ b.code \in CodeIds
           /\ b.code_verifier # ""
           /\ oauthLast'.forCode = b.code
           /\ oauthAuthCodes[b.code] # NoCode
           /\ LET payload == oauthAuthCodes[b.code] IN
              \/ /\ payload.codeChallengeMethod \in {"", "plain"}
                 /\ payload.codeChallenge = b.code_verifier
              \/ /\ payload.codeChallengeMethod = "S256"
                 /\ payload.codeChallenge = base64UrlSha256(b.code_verifier)
           /\ OAuthToken(b))
            => /\ oauthLast'.status = 200
               /\ oauthLast'.accessToken = oauthAuthCodes[b.code].accessToken
               /\ oauthAuthCodes'[b.code] = NoCode]_vars

\* a code with an S256 challenge is still in the table after an exchange
\* that named it failed the PKCE check
C38_Witness ==
  /\ oauthLast.ep = "token"
  /\ oauthLast.status = 400
  /\ oauthLast.error = "Invalid code_verifier"
  /\ oauthLast.forCode \in CodeIds
  /\ oauthAuthCodes[oauthLast.forCode].accessToken # ""
  /\ oauthAuthCodes[oauthLast.forCode].codeChallenge = "S256:v1"
  /\ oauthAuthCodes[oauthLast.forCode].codeChallengeMethod = "S256"

\* C33: in every reachable state the registry holds at most one adapter under
\* a session id, and an adapter is registered under at most one session id,
\* which is its own; randomUUID() may repeat a value, so that a session is
\* registered again under an id while the close handlers and grace timer of
\* an earlier one are still to run.
C33_OneAdapterPerSessionId ==
  /\ \A sid \in SessionIds : activeSessions[sid] \in AdapterIds \cup {NoAdapter}
  /\ \A s1, s2 \in SessionIds :
       (activeSessions[s1] # NoAdapter /\ activeSessions[s1] = activeSessions[s2])
         => s1 = s2
  /\ \A sid \in SessionIds :
       activeSessions[sid] # NoAdapter
         => adapters[activeSessions[sid]].sessionId = sid

\* an SSE and a Streamable HTTP transport drew the same id; the later one is
\* the one registered
C33_Witness ==
  \E sid \in SessionIds, t1, t2 \in AdapterIds :
    /\ t1 # t2
    /\ adapters[t1].sessionId = sid
    /\ adapters[t2].sessionId = sid
    /\ adapters[t1].kind = "SSE"
    /\ adapters[t2].kind = "HTTP"
    /\ activeSessions[sid] = t2
    /\ ~adapters[t1].resOpen

\* C34 as stated: when a transport is registered under an id that is already
\* in the registry, the registration fails and the adapter stored under the
\* id stays the one it was.
C34_DuplicateRegistrationRefused ==
  [][\A id \in SessionIds :
       (/\ activeSessions[id] # NoAdapter
        /\ \/ SseRequest(id)
           \/ \E p \in pending : McpConnected(p, id))
         => activeSessions'[id] = activeSessions[id]]_vars

\* C35: a run of the statistics timer leaves the session registry, the
\* pending-request table and the issued-code table, and everything else of
\* the transports and the relay, as they were; it changes at most its own
\* three variables, and when it does, the session count it records is the
\* size of the registry.
C35_StatsTimerOnlyReports ==
  [][\A elapsed \in BOOLEAN, currentMemoryUsage \in MemoryLevels :
       updateStatsIfNeeded(elapsed, currentMemoryUsage)
         => /\ activeSessions' = activeSessions
            /\ oauthAuthRequests' = oauthAuthRequests
            /\ oauthAuthCodes' = oauthAuthCodes
            /\ UNCHANGED <<sessVars, oauthVars>>
            /\ \/ UNCHANGED statsVars
               \/ /\ lastSessionCount' = Size(activeSessions)
                  /\ lastMemoryUsage' = currentMemoryUsage]_vars

\* the timer has reported a registry with a session in it, the code table
\* holding a code
C35_Witness ==
  /\ lastStatsUpdate = 1
  /\ lastSessionCount = 1
  /\ Size(activeSessions) = 1
  /\ \E c \in CodeIds : oauthAuthCodes[c] # NoCode

\* C36: an entry of the pending-request table is never modified and leaves
\* the table only in the callback that named it, resumed after a successful
\* upstream exchange; an entry of the issued-code table is never modified and
\* leaves the table only in a successful exchange at /oauth/token that named
\* it.  Grace timers and runs of the statistics timer in particular leave
\* both tables alone, and as long as a request is in the table a callback
\* with its id is matched to it.
C36_EntriesStayUntilConsumed ==
  [][/\ \A r \in RequestIds :
          (oauthAuthRequests[r] # NoRequest /\ oauthAuthRequests'[r] # oauthAuthRequests[r])
            => /\ oauthAuthRequests'[r] = NoRequest
               /\ \E cb \in inflight :
                    /\ cb.kind = "callback"
                    /\ cb.matched
                    /\ cb.requestId = r
                    /\ OAuthCallbackExchanged(cb)
                    /\ oauthLast'.status = 302
     /\ \A c \in CodeIds :
          (oauthAuthCodes[c] # NoCode /\ oauthAuthCodes'[c] # oauthAuthCodes[c])
            => /\ oauthAuthCodes'[c] = NoCode
               /\ \E b \in CodeBodies :
                    /\ b.code = c
                    /\ OAuthToken(b)
                    /\ oauthLast'.status = 200
     /\ \A tm \in timers :
          GraceTimerFires(tm)
            => oauthAuthRequests' = oauthAuthRequests /\ oauthAuthCodes' = oauthAuthCodes
     /\ StatsStep
          => oauthAuthRequests' = oauthAuthRequests /\ oauthAuthCodes' = oauthAuthCodes
     /\ \A q \in ExchangeQueries :
          (/\ LookupRequest(q.state) # NoRequest
           /\ inflight' # inflight
           /\ OAuthCallback(q))
            => \A cb \in inflight' \ inflight :
                 cb.matched /\ cb.request = oauthAuthRequests[q.state]]_vars

\* a code has been redeemed, a grace timer has fired and the statistics
\* timer has run
C36_Witness ==
  /\ oauthLast.ep = "token"
  /\ oauthLast.status = 200
  /\ oauthLast.forCode \in redeemed
  /\ last.ep = "timer"
  /\ lastStatsUpdate = 1

\* C31: the token of a session is the one its creating request presented;
\* no later step changes it, and a tool call on the session uses it (or the
\* process default when the session was created without a token) whatever
\* Authorization header or token parameter the request of the call carries.
C31_SessionTokenFixedAtCreation ==
  [][/\ \A t \in 1..nAdapters : sessionToken'[t] = sessionToken[t]
     /\ \A c \in Credentials :
          (nAdapters' = nAdapters + 1 /\ McpRequestFrom("POST", NoSession, "init", c,
                                                       [isCall |-> FALSE, apiToken |-> ""]))
            => sessionToken'[nAdapters + 1] = Presented(c)
     /\ \A sid \in SessionIds, c \in Credentials, msg \in Messages :
          LET t == activeSessions[sid] IN
          (/\ t # NoAdapter
           /\ msg.isCall
           /\ last'.sid = sid
           /\ McpRequestFrom("POST", sid, "call", c, msg))
            => /\ last'.status = 200
               /\ last'.adapter = t
               /\ lastTool'.adapter = t
               /\ lastTool'.presented = Presented(c)
               /\ lastTool'.finalToken =
                    (IF sessionToken[t] # "" THEN sessionToken[t] ELSE env.apiToken)]_vars

\* a tool call whose request carried another token than the one its session
\* was created with used the session's
C31_Witness ==
  /\ lastTool.adapter # NoAdapter
  /\ sessionToken[lastTool.adapter] = "hdrToken"
  /\ lastTool.presented = "qToken"
  /\ lastTool.finalToken = "hdrToken"
  /\ last.ep = "mcp"
  /\ last.body = "call"
  /\ last.adapter = lastTool.adapter

\* C32 as stated: a tool call whose arguments hold apiToken uses that value
\* for its upstream call, before the token of its session and the process
\* default.
C32_ToolArgumentTokenFirst ==
  [][\A sid \in SessionIds, c \in Credentials, msg \in Messages :
       (/\ activeSessions[sid] # NoAdapter
        /\ msg.isCall
        /\ msg.apiToken # ""
        /\ TransportAnswer(adapters[activeSessions[sid]], "POST", sid, "call").effect
             = "handled"
        /\ McpRequestFrom("POST", sid, "call", c, msg))
         => lastTool'.finalToken = msg.apiToken]_vars
====
